---- MODULE Spec2Model ----
(***************************************************************************)
(* Reconciliation handlers of terraform-provider-azuread: the application, *)
(* application-password, user and access-package-resource-request          *)
(* resources, the name lock they share and the directory client they call. *)
(*                                                                         *)
(* A Go string is a sequence of tokens: an identifier (a UUID) is one      *)
(* token, "/" is one token, a word such as "password" is one token.  The   *)
(* empty string is << >>.  A Go pointer is an option: << >> is nil and     *)
(* << v >> points to v.                                                    *)
(***************************************************************************)
EXTENDS Naturals, Sequences, FiniteSets, TLC

\* ------------------------------------------------------------------ bounds
\* Key IDs the directory can hand out for new password credentials.
NumKeys == 2
KeyIdPool == <<"k1", "k2", "k3", "k4">>
KeyIds == {KeyIdPool[i] : i \in 1..NumKeys}

\* Handler invocations the host may run at the same time.
Procs == {"p1", "p2"}
\* The one slot of a host that runs its handlers one after the other.
SeqProcs == {"p1"}
\* Object IDs of applications, users and access package resource requests.
ObjectIds == {"o1", "o2"}
UserIds == {"u1", "u2"}
RequestIds == {"r1", "r2"}
DisplayNames == {"n1", "n2"}

\* ----------------------------------------------------------------- values
None == << >>
Some(v) == <<v>>
EmptyString == << >>
Str(tok) == <<tok>>
NoProc == "none"

applicationResourceName == "azuread_application"
StatusNotFound == 404

\* -------------------------------------------------- identifier codec (parse)
Sep == "/"

RECURSIVE SplitFrom(_, _, _)
SplitFrom(s, i, cur) ==
    IF i > Len(s) THEN <<cur>>
    ELSE IF s[i] = Sep THEN <<cur>> \o SplitFrom(s, i + 1, << >>)
    ELSE SplitFrom(s, i + 1, Append(cur, s[i]))

\* strings.Split(s, "/")
Split(s) == SplitFrom(s, 1, << >>)

\* uuid.ParseUUID succeeds on exactly the one-token strings naming an identifier
IsUUID(s) == Len(s) = 1 /\ s[1] \in (ObjectIds \cup UserIds \cup RequestIds \cup KeyIds)

NewCredentialID(objectId, keyType, keyId) ==
    [ObjectId |-> objectId, KeyType |-> keyType, KeyId |-> keyId]

CredentialIDString(id) ==
    id.ObjectId \o Str(Sep) \o Str(id.KeyType) \o Str(Sep) \o id.KeyId

\* parse.PasswordID: << >> is a parse error, << id >> the decoded identifier
PasswordID(s) ==
    LET parts == Split(s) IN
    IF Len(parts) # 3 THEN None
    ELSE IF ~IsUUID(parts[1]) THEN None
    ELSE IF parts[2] # Str("password") THEN None
    ELSE IF ~IsUUID(parts[3]) THEN None
    ELSE Some(NewCredentialID(parts[1], "password", parts[3]))

\* parse.OldPasswordID: decodes the v0 identity {objectId}/{keyId} into the
\* credential identifier of a password; << >> is a parse error
OldPasswordID(s) ==
    LET parts == Split(s) IN
    IF Len(parts) # 2 THEN None
    ELSE IF ~IsUUID(parts[1]) THEN None
    ELSE IF ~IsUUID(parts[2]) THEN None
    ELSE Some(NewCredentialID(parts[1], "password", parts[2]))

\* -------------------------------------------------------------- variables
VARIABLES
    apps,       \* object IDs of the applications the directory holds
    appName,    \* [ObjectIds -> DisplayNames]: display name of each application
    creds,      \* [ObjectIds -> SUBSET KeyIds]: password credentials per application
    users,      \* object IDs of the users the directory holds
    requests,   \* IDs of the access package resource requests the directory holds
    mutexKV,    \* [LockKeys -> Procs \cup {NoProc}]: who holds each named lock
    op,         \* [Procs -> handler name, or "idle"]
    pc,         \* [Procs -> position inside the handler]
    d,          \* [Procs -> schema.ResourceData of the invocation]
    local,      \* [Procs -> the handler's local variables]
    deferred,   \* [Procs -> stack of lock keys to unlock when the handler returns]
    ret,        \* [Procs -> "none" while running, else the handler's result]
    calls       \* [Procs -> the directory-client calls of this invocation, in order]

remote == <<apps, appName, creds, users, requests>>
procVars == <<op, pc, d, local, deferred, ret, calls>>
vars == <<apps, appName, creds, users, requests, mutexKV, op, pc, d, local, deferred, ret, calls>>

LockKey(name, id) == <<name, id>>
LockKeys == {LockKey(applicationResourceName, Str(o)) : o \in ObjectIds}

NoLocal == [appId |-> None, objectId |-> EmptyString, keyId |-> EmptyString]
NoData == [id |-> EmptyString, application_object_id |-> EmptyString,
           key_id |-> EmptyString, value |-> EmptyString,
           display_name |-> EmptyString, prevent_duplicate_names |-> FALSE,
           old_display_name |-> EmptyString, duplicate_values |-> FALSE,
           changed |-> {},
           user_principal_name |-> EmptyString, object_id |-> EmptyString,
           mail_nickname |-> EmptyString,
           admin_managed |-> FALSE, only_default |-> FALSE, only_initial |-> FALSE,
           only_root |-> FALSE, include_unverified |-> FALSE,
           supports_services |-> << >>, domains |-> << >>]

\* No handler is running and no lock is held.
InitHost ==
    /\ mutexKV = [k \in LockKeys |-> NoProc]
    /\ op = [p \in Procs |-> "idle"]
    /\ pc = [p \in Procs |-> "idle"]
    /\ d = [p \in Procs |-> NoData]
    /\ local = [p \in Procs |-> NoLocal]
    /\ deferred = [p \in Procs |-> << >>]
    /\ ret = [p \in Procs |-> "none"]
    /\ calls = [p \in Procs |-> << >>]

\* The directory holds any set of applications, none with a password credential
\* yet, and no user or request.
Init ==
    /\ apps \in SUBSET ObjectIds
    /\ appName = [o \in ObjectIds |-> "n1"]
    /\ creds = [o \in ObjectIds |-> {}]
    /\ users = {}
    /\ requests = {}
    /\ InitHost

\* The directory holds any set of applications, users and requests.
InitSeq ==
    /\ apps \in SUBSET ObjectIds
    /\ appName = [o \in ObjectIds |-> "n1"]
    /\ creds = [o \in ObjectIds |-> {}]
    /\ users \in SUBSET UserIds
    /\ requests \in SUBSET RequestIds
    /\ InitHost

\* ------------------------------------------------- handler frame (Go runtime)
Unlocked(m, keys) ==
    [k \in DOMAIN m |-> IF \E i \in 1..Len(keys) : keys[i] = k THEN NoProc ELSE m[k]]

\* tf.LockByName: blocks until the key is free, then holds it
LockByName(p, name, id) ==
    /\ mutexKV[LockKey(name, id)] = NoProc
    /\ mutexKV' = [mutexKV EXCEPT ![LockKey(name, id)] = p]

\* Mutant of Defer: the unlock is not deferred.
DeferNothing(p, name, id) ==
    UNCHANGED deferred

\* defer tf.UnlockByName(name, id)
Defer(p, name, id) ==
    deferred' = [deferred EXCEPT ![p] = <<LockKey(name, id)>> \o @]

\* Mutant of Exit: only a successful return unlocks (an explicit unlock at the
\* end of the handler in place of the deferred one).
ExitLeak(p, result) ==
    /\ pc' = [pc EXCEPT ![p] = "done"]
    /\ ret' = [ret EXCEPT ![p] = result]
    /\ mutexKV' = IF result = "ok" THEN Unlocked(mutexKV, deferred[p]) ELSE mutexKV
    /\ deferred' = [deferred EXCEPT ![p] = << >>]

\* A return statement: the deferred tf.UnlockByName calls run, then the caller
\* sees the result.
Exit(p, result) ==
    /\ pc' = [pc EXCEPT ![p] = "done"]
    /\ ret' = [ret EXCEPT ![p] = result]
    /\ mutexKV' = Unlocked(mutexKV, deferred[p])
    /\ deferred' = [deferred EXCEPT ![p] = << >>]

\* The handler moves on to its next statement.
Goto(p, label) ==
    /\ pc' = [pc EXCEPT ![p] = label]
    /\ UNCHANGED <<ret, mutexKV, deferred>>

\* The directory client records the call and its answer r (an instrumented
\* client): the ID (the key ID, for a credential) of the returned record, the
\* listed records of a search (the password credentials, for the Get of
\* applicationPasswordResourceRead), the
\* object the directory stored for a create or an add, the fields of the
\* payload of an update, and the filter of a list.
Call(p, fn, r) ==
    calls' = [calls EXCEPT ![p] = Append(@,
                [fn |-> fn, err |-> r.err, status |-> r.status,
                 ID |-> IF "ID" \in DOMAIN r THEN r.ID
                        ELSE IF "KeyId" \in DOMAIN r THEN r.KeyId ELSE None,
                 result |-> IF "result" \in DOMAIN r THEN r.result ELSE None,
                 made |-> IF "created" \in DOMAIN r THEN r.created
                          ELSE IF "added" \in DOMAIN r THEN r.added ELSE None,
                 payload |-> IF "payload" \in DOMAIN r THEN r.payload ELSE {},
                 filter |-> IF "filter" \in DOMAIN r THEN r.filter ELSE EmptyString])]

\* The host starts a handler on an idle slot, with the resource data data.
Begin(p, name, data) ==
    /\ op[p] = "idle"
    /\ op' = [op EXCEPT ![p] = name]
    /\ d' = [d EXCEPT ![p] = data]
    /\ calls' = [calls EXCEPT ![p] = << >>]

\* The host collects the result; the slot is free for the next invocation.
Finish(p) ==
    /\ pc[p] = "done"
    /\ op' = [op EXCEPT ![p] = "idle"]
    /\ pc' = [pc EXCEPT ![p] = "idle"]
    /\ d' = [d EXCEPT ![p] = NoData]
    /\ local' = [local EXCEPT ![p] = NoLocal]
    /\ ret' = [ret EXCEPT ![p] = "none"]
    /\ calls' = [calls EXCEPT ![p] = << >>]
    /\ UNCHANGED <<remote, mutexKV, deferred>>

\* --------------------------------------------------------- directory client
\* The objects of pool a string names (at most one).
Named(id, pool) == {o \in pool : Str(o) = id}
TheNamed(id, pool) == CHOOSE o \in pool : Str(o) = id

\* What tf.Set stores for a *string: the empty string for nil.
StringOf(ptr) == IF ptr = None THEN EmptyString ELSE ptr[1]

\* userDataSourceRead, lines 207-237: the user found is stored
userDataSourceRead_Found(p, user) ==
    IF user.ID = None THEN
       UNCHANGED d /\ Exit(p, "bad_api_response")
    ELSE
       /\ d' = [d EXCEPT ![p].id = user.ID[1],
                         ![p].object_id = StringOf(user.ID),
                         ![p].user_principal_name = StringOf(user.UserPrincipalName),
                         ![p].mail_nickname = StringOf(user.MailNickname)]
       /\ Exit(p, "ok")

\* The attributes of the users of the directory that a filter can name.
UserPrincipalNameOf(u) == Str("upn1")
MailNicknameOf(u) == Str("nick1")

\* The record the directory returns for the user u.
UserRecord(u) ==
    [ID |-> Some(Str(u)), UserPrincipalName |-> Some(UserPrincipalNameOf(u)),
     MailNickname |-> Some(MailNicknameOf(u))]

ErrNotFound == [err |-> TRUE, status |-> StatusNotFound]
ErrOther == [err |-> TRUE, status |-> 500]
Ok == [err |-> FALSE, status |-> 200]

\* Get(ctx, id) of the users and access package resource request clients
GetResponses(id, pool) ==
    IF Named(id, pool) # {} THEN {Ok, ErrOther} ELSE {ErrNotFound, ErrOther}

\* Delete(ctx, id): removed tells whether the directory deleted the object
DeleteResponses(id, pool) ==
    IF Named(id, pool) # {}
    THEN {[err |-> FALSE, status |-> 204, removed |-> TRUE],
          [err |-> TRUE, status |-> 500, removed |-> FALSE]}
    ELSE {[err |-> TRUE, status |-> StatusNotFound, removed |-> FALSE]}

\* Create(ctx, properties): the record comes back with the new object's ID, with
\* a nil ID or with an empty ID; created is the object the directory stored.
CreateResponses(free) ==
    {[err |-> TRUE, status |-> 500, ID |-> None, created |-> None]}
    \cup UNION {
        {[err |-> FALSE, status |-> 201, ID |-> Some(Str(o)), created |-> Some(o)],
         [err |-> FALSE, status |-> 201, ID |-> None, created |-> Some(o)],
         [err |-> FALSE, status |-> 201, ID |-> Some(EmptyString), created |-> Some(o)]} : o \in free}

\* ApplicationsClient.Get(ctx, id): (app, status, err).  A record returned
\* without error is never nil; its ID may be.
ApplicationsGet(id) ==
    IF Named(id, apps) # {}
    THEN LET name == Some(Str(appName[TheNamed(id, apps)])) IN
         {[err |-> FALSE, status |-> 200, ID |-> Some(id), DisplayName |-> name,
           PasswordCredentials |-> pcs] :
              pcs \in {None, Some(creds[TheNamed(id, apps)])}}
         \cup {[err |-> FALSE, status |-> 200, ID |-> None, DisplayName |-> name,
                PasswordCredentials |-> None],
               [err |-> TRUE, status |-> 500, ID |-> None, DisplayName |-> None,
                PasswordCredentials |-> None]}
    ELSE {[err |-> TRUE, status |-> StatusNotFound, ID |-> None, DisplayName |-> None,
           PasswordCredentials |-> None],
          [err |-> TRUE, status |-> 500, ID |-> None, DisplayName |-> None,
           PasswordCredentials |-> None]}

\* ApplicationsClient.AddPassword(ctx, id, credential): (newCredential, status,
\* err).  added is the key the directory stored, nil when it stored none.
AddPasswordResponses(id) ==
    {[err |-> TRUE, status |-> 500, cred |-> FALSE, KeyId |-> None, SecretText |-> None, added |-> None]}
    \cup
    (IF Named(id, apps) = {} THEN {}
     ELSE UNION {
            {[err |-> FALSE, status |-> 200, cred |-> TRUE, KeyId |-> Some(Str(k)), SecretText |-> Some(Str("secret")), added |-> Some(k)],
             [err |-> FALSE, status |-> 200, cred |-> TRUE, KeyId |-> Some(Str(k)), SecretText |-> Some(EmptyString), added |-> Some(k)],
             [err |-> FALSE, status |-> 200, cred |-> TRUE, KeyId |-> Some(Str(k)), SecretText |-> None, added |-> Some(k)],
             [err |-> FALSE, status |-> 200, cred |-> TRUE, KeyId |-> None, SecretText |-> Some(Str("secret")), added |-> Some(k)],
             [err |-> FALSE, status |-> 200, cred |-> FALSE, KeyId |-> None, SecretText |-> None, added |-> Some(k)]}
            : k \in KeyIds \ creds[TheNamed(id, apps)]})

\* ApplicationsClient.RemovePassword(ctx, id, keyId): (status, err).  The
\* directory answers with an error when the application or the key is absent.
RemovePasswordResponses(id, keyId) ==
    IF \E o \in apps : Str(o) = id /\ \E k \in creds[o] : Str(k) = keyId
    THEN {[err |-> FALSE, status |-> 204, removed |-> TRUE],
          [err |-> TRUE, status |-> 500, removed |-> FALSE]}
    ELSE {[err |-> TRUE, status |-> IF Named(id, apps) = {} THEN StatusNotFound ELSE 400,
           removed |-> FALSE],
          [err |-> TRUE, status |-> 500, removed |-> FALSE]}

\* ApplicationsClient.Update(ctx, properties): (status, err)
UpdateResponses(id) ==
    IF Named(id, apps) # {} THEN {Ok, ErrOther} ELSE {ErrNotFound, ErrOther}

\* The orders in which the directory may list the objects of a set.
RECURSIVE Orders(_)
Orders(S) ==
    IF S = {} THEN {<< >>}
    ELSE UNION {{<<x>> \o t : t \in Orders(S \ {x})} : x \in S}

\* applicationFindByName(ctx, client, displayName): (result, err), a List with
\* the filter displayName eq '...'.  result is nil, or the matching
\* applications in some order, one of them possibly without its ID.
FindByNameResponses(name) ==
    LET match == {o \in apps : Str(appName[o]) = name}
        full == {[i \in 1..Len(t) |-> [ID |-> Some(Str(t[i]))]] : t \in Orders(match)}
        holed == {[l EXCEPT ![i].ID = None] : l \in full, i \in 1..Cardinality(match)}
    IN  {[err |-> TRUE, status |-> 500, result |-> None],
         [err |-> FALSE, status |-> 200, result |-> None]}
        \cup {[err |-> FALSE, status |-> 200, result |-> Some(l)] : l \in full \cup holed}

\* ------------------------------------------- azuread_application_password
ValidPasswordIds ==
    {CredentialIDString(NewCredentialID(Str(o), "password", Str(k))) : o \in ObjectIds, k \in KeyIds}

\* Identities a stored resource may carry: well-formed ones and malformed ones
\* (empty, a legacy flat ID, two segments, another credential type, four segments).
StoredPasswordIds ==
    ValidPasswordIds
    \cup {EmptyString, Str("o1"), <<"o1", Sep, "password">>,
          <<"o1", Sep, "certificate", Sep, "k1">>,
          <<"o1", Sep, "password", Sep, "k1", Sep, "k1">>}

\* applicationPasswordResourceCreate, lines 92-105: read the configuration and
\* generate the credential; gen is what helpers.PasswordCredentialForResource returns.
applicationPasswordResourceCreate(p) ==
    \E o \in ObjectIds, gen \in {"credential", "error", "nil"} :
        /\ Begin(p, "applicationPasswordResourceCreate",
                 [NoData EXCEPT !.application_object_id = Str(o)])
        /\ local' = [local EXCEPT ![p] = [NoLocal EXCEPT !.objectId = Str(o)]]
        /\ IF gen = "error" THEN Exit(p, "credential_error")
           ELSE IF gen = "nil" THEN Exit(p, "nil_credential")
           ELSE Goto(p, "lock")
        /\ UNCHANGED remote

\* Mutant of applicationPasswordResourceCreate_Lock: one key for every application.
applicationPasswordResourceCreate_LockAll(p) ==
    /\ op[p] = "applicationPasswordResourceCreate" /\ pc[p] = "lock"
    /\ LockByName(p, applicationResourceName, Str("o1"))
    /\ Defer(p, applicationResourceName, Str("o1"))
    /\ pc' = [pc EXCEPT ![p] = "get"]
    /\ UNCHANGED <<remote, op, d, local, ret, calls>>

\* lines 107-108
applicationPasswordResourceCreate_Lock(p) ==
    /\ op[p] = "applicationPasswordResourceCreate" /\ pc[p] = "lock"
    /\ LockByName(p, applicationResourceName, local[p].objectId)
    /\ Defer(p, applicationResourceName, local[p].objectId)
    /\ pc' = [pc EXCEPT ![p] = "get"]
    /\ UNCHANGED <<remote, op, d, local, ret, calls>>

\* Mutant of applicationPasswordResourceCreate_Get: a record without ID is
\* accepted and the configured object ID used.
applicationPasswordResourceCreate_Get_NilIdAccepted(p) ==
    /\ op[p] = "applicationPasswordResourceCreate" /\ pc[p] = "get"
    /\ \E r \in ApplicationsGet(local[p].objectId) :
        /\ Call(p, "Get", r)
        /\ IF r.err THEN
              /\ Exit(p, IF r.status = StatusNotFound THEN "not_found" ELSE "remote_error")
              /\ UNCHANGED local
           ELSE
              /\ local' = [local EXCEPT ![p].appId = Some(local[p].objectId)]
              /\ Goto(p, "add")
    /\ UNCHANGED <<remote, op, d>>

\* lines 110-119
applicationPasswordResourceCreate_Get(p) ==
    /\ op[p] = "applicationPasswordResourceCreate" /\ pc[p] = "get"
    /\ \E r \in ApplicationsGet(local[p].objectId) :
        /\ Call(p, "Get", r)
        /\ IF r.err THEN
              /\ Exit(p, IF r.status = StatusNotFound THEN "not_found" ELSE "remote_error")
              /\ UNCHANGED local
           ELSE IF r.ID = None THEN
              /\ Exit(p, "bad_api_response")
              /\ UNCHANGED local
           ELSE
              /\ local' = [local EXCEPT ![p].appId = r.ID]
              /\ Goto(p, "add")
    /\ UNCHANGED <<remote, op, d>>

\* Mutant of applicationPasswordResourceCreate_AddPassword: the identity is built
\* with the key ID and the object ID swapped.
applicationPasswordResourceCreate_AddPassword_Swapped(p) ==
    /\ op[p] = "applicationPasswordResourceCreate" /\ pc[p] = "add"
    /\ \E r \in AddPasswordResponses(local[p].appId[1]) :
        /\ Call(p, "AddPassword", r)
        /\ creds' = IF r.added = None THEN creds
                    ELSE [creds EXCEPT ![TheNamed(local[p].appId[1], apps)] = @ \cup {r.added[1]}]
        /\ IF r.err THEN
              Exit(p, "remote_error") /\ UNCHANGED d
           ELSE IF ~r.cred THEN
              Exit(p, "bad_api_response") /\ UNCHANGED d
           ELSE IF r.KeyId = None THEN
              Exit(p, "bad_api_response") /\ UNCHANGED d
           ELSE IF r.SecretText = None \/ Len(r.SecretText[1]) = 0 THEN
              Exit(p, "bad_api_response") /\ UNCHANGED d
           ELSE
              /\ d' = [d EXCEPT ![p].id = CredentialIDString(
                                     NewCredentialID(r.KeyId[1], "password", local[p].appId[1])),
                                ![p].value = r.SecretText[1]]
              /\ Goto(p, "read")
    /\ UNCHANGED <<apps, appName, users, requests, op, local>>

\* lines 121-137
applicationPasswordResourceCreate_AddPassword(p) ==
    /\ op[p] = "applicationPasswordResourceCreate" /\ pc[p] = "add"
    /\ \E r \in AddPasswordResponses(local[p].appId[1]) :
        /\ Call(p, "AddPassword", r)
        /\ creds' = IF r.added = None THEN creds
                    ELSE [creds EXCEPT ![TheNamed(local[p].appId[1], apps)] = @ \cup {r.added[1]}]
        /\ IF r.err THEN
              Exit(p, "remote_error") /\ UNCHANGED d
           ELSE IF ~r.cred THEN
              Exit(p, "bad_api_response") /\ UNCHANGED d
           ELSE IF r.KeyId = None THEN
              Exit(p, "bad_api_response") /\ UNCHANGED d
           ELSE IF r.SecretText = None \/ Len(r.SecretText[1]) = 0 THEN
              Exit(p, "bad_api_response") /\ UNCHANGED d
           ELSE
              /\ d' = [d EXCEPT ![p].id = CredentialIDString(
                                     NewCredentialID(local[p].appId[1], "password", r.KeyId[1])),
                                ![p].value = r.SecretText[1]]
              /\ Goto(p, "read")
    /\ UNCHANGED <<apps, appName, users, requests, op, local>>

\* Mutant of applicationPasswordResourceRead: a nil credential list is taken
\* for a list holding the credential.
applicationPasswordResourceRead_NilListKept(p) ==
    /\ op[p] \in {"applicationPasswordResourceCreate", "applicationPasswordResourceRead"}
    /\ pc[p] = "read"
    /\ LET id == PasswordID(d[p].id) IN
       IF id = None THEN
          /\ Exit(p, "parse_error")
          /\ UNCHANGED <<d, calls>>
       ELSE
          \E r \in ApplicationsGet(id[1].ObjectId) :
            /\ Call(p, "Get", [result |-> r.PasswordCredentials] @@ r)
            /\ IF r.err THEN
                  IF r.status = StatusNotFound
                  THEN d' = [d EXCEPT ![p].id = EmptyString] /\ Exit(p, "ok")
                  ELSE UNCHANGED d /\ Exit(p, "remote_error")
               ELSE IF r.PasswordCredentials # None
                       /\ ~\E k \in r.PasswordCredentials[1] : Str(k) = id[1].KeyId THEN
                  d' = [d EXCEPT ![p].id = EmptyString] /\ Exit(p, "ok")
               ELSE
                  /\ d' = [d EXCEPT ![p].application_object_id = id[1].ObjectId,
                                    ![p].key_id = id[1].KeyId]
                  /\ Exit(p, "ok")
    /\ UNCHANGED <<remote, op, local>>

\* applicationPasswordResourceRead, lines 143-193: the handler, and the tail of
\* Create (line 139)
applicationPasswordResourceRead(p) ==
    /\ op[p] \in {"applicationPasswordResourceCreate", "applicationPasswordResourceRead"}
    /\ pc[p] = "read"
    /\ LET id == PasswordID(d[p].id) IN
       IF id = None THEN
          /\ Exit(p, "parse_error")
          /\ UNCHANGED <<d, calls>>
       ELSE
          \E r \in ApplicationsGet(id[1].ObjectId) :
            /\ Call(p, "Get", [result |-> r.PasswordCredentials] @@ r)
            /\ IF r.err THEN
                  IF r.status = StatusNotFound
                  THEN d' = [d EXCEPT ![p].id = EmptyString] /\ Exit(p, "ok")
                  ELSE UNCHANGED d /\ Exit(p, "remote_error")
               ELSE IF r.PasswordCredentials = None
                       \/ ~\E k \in r.PasswordCredentials[1] : Str(k) = id[1].KeyId THEN
                  d' = [d EXCEPT ![p].id = EmptyString] /\ Exit(p, "ok")
               ELSE
                  /\ d' = [d EXCEPT ![p].application_object_id = id[1].ObjectId,
                                    ![p].key_id = id[1].KeyId]
                  /\ Exit(p, "ok")
    /\ UNCHANGED <<remote, op, local>>

\* ------------------------------------------------------------ state upgrader
\* Identities a v0 state may carry: v0 identities, and everything a later
\* version may have stored.
OldPasswordIds == {Str(o) \o Str(Sep) \o Str(k) : o \in ObjectIds, k \in KeyIds}

RawStateIds == OldPasswordIds \cup StoredPasswordIds

\* The raw states handed to the upgrader: an "id" and the other entries.
RawStates ==
    {[NoData EXCEPT !.id = s, !.application_object_id = Str(o), !.key_id = k, !.value = v] :
        s \in RawStateIds, o \in ObjectIds,
        k \in {EmptyString} \cup {Str(x) : x \in KeyIds},
        v \in {EmptyString, Str("secret")}}

\* Mutant of StateUpgradeV0: a failed parse blanks the "id" entry.
StateUpgradeV0_BlankOnError(rawState) ==
    LET newId == OldPasswordID(rawState.id) IN
    IF newId = None THEN [state |-> [rawState EXCEPT !.id = EmptyString], err |-> TRUE]
    ELSE [state |-> [rawState EXCEPT !.id = CredentialIDString(newId[1])], err |-> FALSE]

\* resourceApplicationPasswordInstanceStateUpgradeV0, lines 274-283, as a
\* function of the raw state: the returned state and whether an error is returned
StateUpgradeV0(rawState) ==
    LET newId == OldPasswordID(rawState.id) IN
    IF newId = None THEN [state |-> rawState, err |-> TRUE]
    ELSE [state |-> [rawState EXCEPT !.id = CredentialIDString(newId[1])], err |-> FALSE]

\* The host loads a stored v0 state and hands it to the upgrader.
resourceApplicationPasswordInstanceStateUpgradeV0Start(p) ==
    \E rawState \in RawStates :
        /\ Begin(p, "resourceApplicationPasswordInstanceStateUpgradeV0", rawState)
        /\ Goto(p, "upgrade")
        /\ UNCHANGED <<remote, local>>

\* resourceApplicationPasswordInstanceStateUpgradeV0, lines 274-283
resourceApplicationPasswordInstanceStateUpgradeV0(p) ==
    /\ op[p] = "resourceApplicationPasswordInstanceStateUpgradeV0" /\ pc[p] = "upgrade"
    /\ LET r == StateUpgradeV0(d[p]) IN
          /\ d' = [d EXCEPT ![p] = r.state]
          /\ Exit(p, IF r.err THEN "upgrade_error" ELSE "ok")
    /\ UNCHANGED <<remote, op, local, calls>>

\* The host calls applicationPasswordResourceRead on a stored resource.
applicationPasswordResourceReadStart(p, ids) ==
    \E s \in ids :
        /\ Begin(p, "applicationPasswordResourceRead", [NoData EXCEPT !.id = s])
        /\ Goto(p, "read")
        /\ UNCHANGED <<remote, local>>

\* Mutant of applicationPasswordResourceDelete: the parse error is ignored.
applicationPasswordResourceDelete_ParseIgnored(p, ids) ==
    \E s \in ids :
        /\ Begin(p, "applicationPasswordResourceDelete", [NoData EXCEPT !.id = s])
        /\ LET id == PasswordID(s) IN
              /\ local' = [local EXCEPT ![p] =
                             IF id = None THEN [NoLocal EXCEPT !.objectId = Str("o1")]
                             ELSE [NoLocal EXCEPT !.objectId = id[1].ObjectId,
                                                  !.keyId = id[1].KeyId]]
              /\ Goto(p, "lock")
        /\ UNCHANGED remote

\* applicationPasswordResourceDelete, lines 196-201
applicationPasswordResourceDelete(p, ids) ==
    \E s \in ids :
        /\ Begin(p, "applicationPasswordResourceDelete", [NoData EXCEPT !.id = s])
        /\ LET id == PasswordID(s) IN
           IF id = None THEN
              Exit(p, "parse_error") /\ UNCHANGED local
           ELSE
              /\ local' = [local EXCEPT ![p] = [NoLocal EXCEPT !.objectId = id[1].ObjectId,
                                                               !.keyId = id[1].KeyId]]
              /\ Goto(p, "lock")
        /\ UNCHANGED remote

\* Mutant of applicationPasswordResourceDelete_Lock: the lock is not taken.
applicationPasswordResourceDelete_NoLock(p) ==
    /\ op[p] = "applicationPasswordResourceDelete" /\ pc[p] = "lock"
    /\ pc' = [pc EXCEPT ![p] = "remove"]
    /\ UNCHANGED <<remote, mutexKV, deferred, op, d, local, ret, calls>>

\* lines 203-204
applicationPasswordResourceDelete_Lock(p) ==
    /\ op[p] = "applicationPasswordResourceDelete" /\ pc[p] = "lock"
    /\ LockByName(p, applicationResourceName, local[p].objectId)
    /\ Defer(p, applicationResourceName, local[p].objectId)
    /\ pc' = [pc EXCEPT ![p] = "remove"]
    /\ UNCHANGED <<remote, op, d, local, ret, calls>>

\* lines 206-210
applicationPasswordResourceDelete_RemovePassword(p) ==
    /\ op[p] = "applicationPasswordResourceDelete" /\ pc[p] = "remove"
    /\ \E r \in RemovePasswordResponses(local[p].objectId, local[p].keyId) :
        /\ Call(p, "RemovePassword", r)
        /\ creds' = IF r.removed
                    THEN [creds EXCEPT ![TheNamed(local[p].objectId, apps)] =
                                           {k \in @ : Str(k) # local[p].keyId}]
                    ELSE creds
        /\ Exit(p, IF r.err THEN "remote_error" ELSE "ok")
    /\ UNCHANGED <<apps, appName, users, requests, op, d, local>>

\* ------------------------------------------------------ azuread_application
\* A helper that took the name lock returns to the handler: its deferred unlock runs.
HelperReturn(p, label) ==
    /\ pc' = [pc EXCEPT ![p] = label]
    /\ mutexKV' = Unlocked(mutexKV, deferred[p])
    /\ deferred' = [deferred EXCEPT ![p] = << >>]
    /\ UNCHANGED ret

AppHandlers == {"applicationResourceCreate", "applicationResourceUpdate",
                "applicationResourceRead", "applicationResourceDelete"}

\* applicationValidateRolesScopes(appRoles, oauth2Permissions): an error when two
\* entries carry the same value.  The entries are abstracted to whether the
\* configuration holds a duplicate value.
applicationValidateRolesScopes(data) ==
    IF data.duplicate_values THEN "validation_error" ELSE "ok"

\* The first listed application that stops the loop of lines 361-368, 0 if none.
FirstDiffConflict(result, diffId) ==
    LET stops == {i \in 1..Len(result) :
                     \/ result[i].ID = None
                     \/ diffId = EmptyString
                     \/ diffId = result[i].ID[1]}
    IN  IF stops = {} THEN 0 ELSE CHOOSE i \in stops : \A j \in stops : i <= j

\* applicationResourceCustomizeDiff, lines 351-355 and, when no name search is
\* due, 372-376: the host calls it at plan time with the identity of the
\* resource (empty when it is being created), the old and the new display name
\* and the configuration.
applicationResourceCustomizeDiff(p, ids, olds, names, guards, dups) ==
    \E id \in ids, old \in olds, n \in names, g \in guards, dup \in dups :
        LET data == [NoData EXCEPT !.id = id, !.old_display_name = old,
                                   !.display_name = Str(n),
                                   !.prevent_duplicate_names = g,
                                   !.duplicate_values = dup]
        IN  /\ Begin(p, "applicationResourceCustomizeDiff", data)
            /\ IF g /\ (old = EmptyString \/ old # Str(n))
               THEN Goto(p, "diff_find")
               ELSE Exit(p, applicationValidateRolesScopes(data))
            /\ UNCHANGED <<remote, local>>

\* lines 356-376
applicationResourceCustomizeDiff_FindByName(p) ==
    /\ op[p] = "applicationResourceCustomizeDiff" /\ pc[p] = "diff_find"
    /\ \E r \in FindByNameResponses(d[p].display_name) :
        /\ Call(p, "List", r)
        /\ IF r.err THEN
              Exit(p, "remote_error") /\ UNCHANGED local
           ELSE IF r.result # None /\ FirstDiffConflict(r.result[1], d[p].id) # 0 THEN
              LET existingApp == r.result[1][FirstDiffConflict(r.result[1], d[p].id)] IN
              IF existingApp.ID = None
              THEN Exit(p, "bad_api_response") /\ UNCHANGED local
              ELSE /\ Exit(p, "duplicate")
                   /\ local' = [local EXCEPT ![p].appId = existingApp.ID]
           ELSE
              Exit(p, applicationValidateRolesScopes(d[p])) /\ UNCHANGED local
    /\ UNCHANGED <<remote, op, d>>

\* Mutant of applicationResourceCreate: the name search is skipped.
applicationResourceCreate_NoSearch(p, names, guards) ==
    \E n \in names, g \in guards :
        /\ Begin(p, "applicationResourceCreate",
                 [NoData EXCEPT !.display_name = Str(n), !.prevent_duplicate_names = g])
        /\ Goto(p, "create")
        /\ UNCHANGED <<remote, local>>

\* applicationResourceCreate, lines 380-384
applicationResourceCreate(p, names, guards) ==
    \E n \in names, g \in guards :
        /\ Begin(p, "applicationResourceCreate",
                 [NoData EXCEPT !.display_name = Str(n), !.prevent_duplicate_names = g])
        /\ Goto(p, IF g THEN "find" ELSE "create")
        /\ UNCHANGED <<remote, local>>

\* Mutant of applicationResourceCreate_FindByName: existing names are ignored.
applicationResourceCreate_FindByName_Ignored(p) ==
    /\ op[p] = "applicationResourceCreate" /\ pc[p] = "find"
    /\ \E r \in FindByNameResponses(d[p].display_name) :
        /\ Call(p, "List", r)
        /\ IF r.err THEN Exit(p, "remote_error") ELSE Goto(p, "create")
    /\ UNCHANGED <<remote, op, d, local>>

\* lines 385-396
applicationResourceCreate_FindByName(p) ==
    /\ op[p] = "applicationResourceCreate" /\ pc[p] = "find"
    /\ \E r \in FindByNameResponses(d[p].display_name) :
        /\ Call(p, "List", r)
        /\ IF r.err THEN
              Exit(p, "remote_error") /\ UNCHANGED local
           ELSE IF r.result # None /\ Len(r.result[1]) > 0 THEN
              LET existingApp == r.result[1][1] IN
              IF existingApp.ID = None
              THEN Exit(p, "bad_api_response") /\ UNCHANGED local
              ELSE /\ Exit(p, "duplicate")
                   /\ local' = [local EXCEPT ![p].appId = existingApp.ID]
           ELSE
              Goto(p, "create") /\ UNCHANGED local
    /\ UNCHANGED <<remote, op, d>>

\* Mutant of applicationResourceCreate_Create: the identity is not stored before
\* the owners are written.
applicationResourceCreate_Create_NoSetId(p) ==
    /\ op[p] = "applicationResourceCreate" /\ pc[p] = "create"
    /\ \E r \in CreateResponses(ObjectIds \ apps) :
        /\ Call(p, "Create", r)
        /\ apps' = IF r.created = None THEN apps ELSE apps \cup {r.created[1]}
        /\ appName' = IF r.created = None THEN appName
                      ELSE [appName EXCEPT ![r.created[1]] = d[p].display_name[1]]
        /\ IF r.err THEN
              Exit(p, "remote_error") /\ UNCHANGED <<d, local>>
           ELSE IF r.ID = None \/ r.ID[1] = EmptyString THEN
              Exit(p, "bad_api_response") /\ UNCHANGED <<d, local>>
           ELSE
              /\ local' = [local EXCEPT ![p].appId = r.ID]
              /\ Goto(p, "owners_lock")
              /\ UNCHANGED d
    /\ UNCHANGED <<creds, users, requests, op>>

\* lines 398-420
applicationResourceCreate_Create(p) ==
    /\ op[p] = "applicationResourceCreate" /\ pc[p] = "create"
    /\ \E r \in CreateResponses(ObjectIds \ apps) :
        /\ Call(p, "Create", r)
        /\ apps' = IF r.created = None THEN apps ELSE apps \cup {r.created[1]}
        /\ appName' = IF r.created = None THEN appName
                      ELSE [appName EXCEPT ![r.created[1]] = d[p].display_name[1]]
        /\ IF r.err THEN
              Exit(p, "remote_error") /\ UNCHANGED <<d, local>>
           ELSE IF r.ID = None \/ r.ID[1] = EmptyString THEN
              Exit(p, "bad_api_response") /\ UNCHANGED <<d, local>>
           ELSE
              /\ d' = [d EXCEPT ![p].id = r.ID[1]]
              /\ local' = [local EXCEPT ![p].appId = r.ID]
              /\ Goto(p, "owners_lock")
    /\ UNCHANGED <<creds, users, requests, op>>

\* applicationSetOwners (lines 422-425 and 480-483): the owners are written under
\* the name lock of the application
applicationSetOwners_Lock(p) ==
    /\ op[p] \in {"applicationResourceCreate", "applicationResourceUpdate"}
    /\ pc[p] = "owners_lock"
    /\ LockByName(p, applicationResourceName, d[p].id)
    /\ Defer(p, applicationResourceName, d[p].id)
    /\ pc' = [pc EXCEPT ![p] = "owners"]
    /\ UNCHANGED <<remote, op, d, local, ret, calls>>

applicationSetOwners(p) ==
    /\ op[p] \in {"applicationResourceCreate", "applicationResourceUpdate"}
    /\ pc[p] = "owners"
    /\ \E r \in UpdateResponses(d[p].id) :
        /\ Call(p, "SetOwners", r)
        /\ IF r.err THEN Exit(p, "remote_error") ELSE HelperReturn(p, "read")
    /\ UNCHANGED <<remote, op, d, local>>

\* applicationResourceRead, lines 502-519: the attributes of the record are
\* stored; prevent_duplicate_names is stored as it is configured
applicationResourceRead_Set(data, app) ==
    [data EXCEPT !.display_name = StringOf(app.DisplayName),
                 !.object_id = StringOf(app.ID),
                 !.prevent_duplicate_names = data.prevent_duplicate_names]

\* applicationResourceRead, lines 489-527: the handler, and the tail of Create
\* (line 427) and of Update (line 485).  Line 521 dereferences the ID of the
\* record: a record without ID makes the handler panic, after its attributes
\* were stored.
applicationResourceRead(p) ==
    /\ op[p] \in AppHandlers /\ pc[p] = "read"
    /\ \E r \in ApplicationsGet(d[p].id) :
        /\ Call(p, "Get", r)
        /\ IF r.err THEN
              IF r.status = StatusNotFound
              THEN d' = [d EXCEPT ![p].id = EmptyString] /\ Exit(p, "ok")
              ELSE UNCHANGED d /\ Exit(p, "remote_error")
           ELSE
              /\ d' = [d EXCEPT ![p] = applicationResourceRead_Set(d[p], r)]
              /\ IF r.ID = None THEN Exit(p, "panic") ELSE Goto(p, "list_owners")
    /\ UNCHANGED <<remote, op, local>>

\* Mutant of applicationResourceRead_ListOwners: a failure clears the identity.
applicationResourceRead_ListOwners_ClearsId(p) ==
    /\ op[p] \in AppHandlers /\ pc[p] = "list_owners"
    /\ \E r \in UpdateResponses(d[p].id) :
        /\ Call(p, "ListOwners", r)
        /\ d' = IF r.err THEN [d EXCEPT ![p].id = EmptyString] ELSE d
        /\ Exit(p, IF r.err THEN "remote_error" ELSE "ok")
    /\ UNCHANGED <<remote, op, local>>

\* lines 521-527
applicationResourceRead_ListOwners(p) ==
    /\ op[p] \in AppHandlers /\ pc[p] = "list_owners"
    /\ \E r \in UpdateResponses(d[p].id) :
        /\ Call(p, "ListOwners", r)
        /\ Exit(p, IF r.err THEN "remote_error" ELSE "ok")
    /\ UNCHANGED <<remote, op, d, local>>

\* The host calls applicationResourceRead on a stored resource.
applicationResourceReadStart(p, ids) ==
    \E o \in ids :
        /\ Begin(p, "applicationResourceRead", [NoData EXCEPT !.id = Str(o)])
        /\ Goto(p, "read")
        /\ UNCHANGED <<remote, local>>

\* applicationResourceUpdate, lines 431-436: the host calls it on a stored
\* application with the set of changed attributes
applicationResourceUpdate(p, ids, names, guards, changes) ==
    \E o \in ids, n \in names, g \in guards, ch \in changes :
        /\ Begin(p, "applicationResourceUpdate",
                 [NoData EXCEPT !.id = Str(o), !.display_name = Str(n),
                                !.prevent_duplicate_names = g, !.changed = ch])
        /\ Goto(p, IF g THEN "find" ELSE "roles_lock")
        /\ UNCHANGED <<remote, local>>

\* Mutant of FirstConflict: the loop stops at the application itself.
FirstConflictSame(result, applicationId) ==
    LET stops == {i \in 1..Len(result) :
                     result[i].ID = None \/ result[i].ID[1] = applicationId}
    IN  IF stops = {} THEN 0 ELSE CHOOSE i \in stops : \A j \in stops : i <= j

\* The first listed application that stops the loop of lines 442-450, 0 if none.
FirstConflict(result, applicationId) ==
    LET stops == {i \in 1..Len(result) :
                     result[i].ID = None \/ result[i].ID[1] # applicationId}
    IN  IF stops = {} THEN 0 ELSE CHOOSE i \in stops : \A j \in stops : i <= j

\* lines 437-452
applicationResourceUpdate_FindByName(p) ==
    /\ op[p] = "applicationResourceUpdate" /\ pc[p] = "find"
    /\ \E r \in FindByNameResponses(d[p].display_name) :
        /\ Call(p, "List", r)
        /\ IF r.err THEN
              Exit(p, "remote_error") /\ UNCHANGED local
           ELSE IF r.result # None /\ FirstConflict(r.result[1], d[p].id) # 0 THEN
              LET existingApp == r.result[1][FirstConflict(r.result[1], d[p].id)] IN
              IF existingApp.ID = None
              THEN Exit(p, "bad_api_response") /\ UNCHANGED local
              ELSE /\ Exit(p, "duplicate")
                   /\ local' = [local EXCEPT ![p].appId = existingApp.ID]
           ELSE
              Goto(p, "roles_lock") /\ UNCHANGED local
    /\ UNCHANGED <<remote, op, d>>

\* Mutant of DisableNext: the permission scopes are not disabled.
DisableNextSkipScopes(kind) == "update"

\* applicationDisableAppRoles (line 468) and
\* applicationDisableOauth2PermissionScopes (line 472): under the name lock of
\* the application, read it, and if it has entries to disable send the update
\* that disables them.  kind is "roles" or "scopes".
DisableNext(kind) == IF kind = "roles" THEN "scopes_lock" ELSE "update"

applicationDisable_Lock(p, kind) ==
    /\ op[p] = "applicationResourceUpdate" /\ pc[p] = kind \o "_lock"
    /\ LockByName(p, applicationResourceName, d[p].id)
    /\ Defer(p, applicationResourceName, d[p].id)
    /\ pc' = [pc EXCEPT ![p] = kind \o "_get"]
    /\ UNCHANGED <<remote, op, d, local, ret, calls>>

applicationDisable_Get(p, kind) ==
    /\ op[p] = "applicationResourceUpdate" /\ pc[p] = kind \o "_get"
    /\ \E r \in ApplicationsGet(d[p].id), toDisable \in BOOLEAN :
        /\ Call(p, kind \o "_Get", r)
        /\ IF r.err THEN Exit(p, "remote_error")
           ELSE IF toDisable THEN Goto(p, kind \o "_disable")
           ELSE HelperReturn(p, DisableNext(kind))
    /\ UNCHANGED <<remote, op, d, local>>

applicationDisable_Update(p, kind) ==
    /\ op[p] = "applicationResourceUpdate" /\ pc[p] = kind \o "_disable"
    /\ \E r \in UpdateResponses(d[p].id) :
        /\ Call(p, kind \o "_Update", r)
        /\ IF r.err THEN Exit(p, "remote_error")
           ELSE HelperReturn(p, DisableNext(kind))
    /\ UNCHANGED <<remote, op, d, local>>

applicationDisableAppRoles(p) ==
    \/ applicationDisable_Lock(p, "roles")
    \/ applicationDisable_Get(p, "roles")
    \/ applicationDisable_Update(p, "roles")

applicationDisableOauth2PermissionScopes(p) ==
    \/ applicationDisable_Lock(p, "scopes")
    \/ applicationDisable_Get(p, "scopes")
    \/ applicationDisable_Update(p, "scopes")

\* Attributes applicationResourceUpdate copies into the record it sends
\* (lines 454-466; the ID of line 455 addresses the record and is not listed).
applicationResourceUpdatePayload ==
    {"api", "app_role", "display_name", "fallback_public_client_enabled",
     "group_membership_claims", "identifier_uris", "optional_claims",
     "required_resource_access", "sign_in_audience", "web"}

\* lines 476-478
applicationResourceUpdate_Update(p) ==
    /\ op[p] = "applicationResourceUpdate" /\ pc[p] = "update"
    /\ \E r \in UpdateResponses(d[p].id) :
        /\ Call(p, "Update", [payload |-> applicationResourceUpdatePayload] @@ r)
        /\ appName' = IF r.err THEN appName
                      ELSE [appName EXCEPT ![TheNamed(d[p].id, apps)] = d[p].display_name[1]]
        /\ IF r.err THEN Exit(p, "remote_error") ELSE Goto(p, "owners_lock")
    /\ UNCHANGED <<apps, creds, users, requests, op, d, local>>

\* applicationResourceDelete, lines 531-540
applicationResourceDeleteStart(p, ids) ==
    \E o \in ids :
        /\ Begin(p, "applicationResourceDelete", [NoData EXCEPT !.id = Str(o)])
        /\ Goto(p, "delete_get")
        /\ UNCHANGED <<remote, local>>

applicationResourceDelete_Get(p) ==
    /\ op[p] = "applicationResourceDelete" /\ pc[p] = "delete_get"
    /\ \E r \in ApplicationsGet(d[p].id) :
        /\ Call(p, "Get", r)
        /\ IF r.err THEN
              Exit(p, IF r.status = StatusNotFound THEN "not_found" ELSE "remote_error")
           ELSE Goto(p, "delete")
    /\ UNCHANGED <<remote, op, d, local>>

\* lines 542-547
applicationResourceDelete_Delete(p) ==
    /\ op[p] = "applicationResourceDelete" /\ pc[p] = "delete"
    /\ \E r \in DeleteResponses(d[p].id, apps) :
        /\ Call(p, "Delete", r)
        /\ apps' = IF r.removed THEN apps \ Named(d[p].id, apps) ELSE apps
        /\ creds' = IF r.removed
                    THEN [o \in ObjectIds |-> IF Str(o) = d[p].id THEN {} ELSE creds[o]]
                    ELSE creds
        /\ appName' = IF r.removed
                      THEN [o \in ObjectIds |-> IF Str(o) = d[p].id THEN "n1" ELSE appName[o]]
                      ELSE appName
        /\ Exit(p, IF r.err THEN "remote_error" ELSE "ok")
    /\ UNCHANGED <<users, requests, op, d, local>>

\* -------------------------------------------------------------- azuread_user
\* userResourceCreate, lines 186-223
userResourceCreateStart(p) ==
    /\ Begin(p, "userResourceCreate", NoData)
    /\ Goto(p, "create")
    /\ UNCHANGED <<remote, local>>

\* Mutant of userResourceCreate_Create: only a nil ID is refused, not an empty one.
userResourceCreate_NilCheckOnly(p) ==
    /\ op[p] = "userResourceCreate" /\ pc[p] = "create"
    /\ \E r \in CreateResponses(UserIds \ users) :
        /\ Call(p, "Create", r)
        /\ users' = IF r.created = None THEN users ELSE users \cup {r.created[1]}
        /\ IF r.err THEN
              Exit(p, "remote_error") /\ UNCHANGED <<d, local>>
           ELSE IF r.ID = None THEN
              Exit(p, "bad_api_response") /\ UNCHANGED <<d, local>>
           ELSE
              /\ d' = [d EXCEPT ![p].id = r.ID[1]]
              /\ local' = [local EXCEPT ![p].appId = r.ID]
              /\ Goto(p, "read")
    /\ UNCHANGED <<apps, appName, creds, requests, op>>

\* lines 225-234
userResourceCreate_Create(p) ==
    /\ op[p] = "userResourceCreate" /\ pc[p] = "create"
    /\ \E r \in CreateResponses(UserIds \ users) :
        /\ Call(p, "Create", r)
        /\ users' = IF r.created = None THEN users ELSE users \cup {r.created[1]}
        /\ IF r.err THEN
              Exit(p, "remote_error") /\ UNCHANGED <<d, local>>
           ELSE IF r.ID = None \/ r.ID[1] = EmptyString THEN
              Exit(p, "bad_api_response") /\ UNCHANGED <<d, local>>
           ELSE
              /\ d' = [d EXCEPT ![p].id = r.ID[1]]
              /\ local' = [local EXCEPT ![p].appId = r.ID]
              /\ Goto(p, "read")
    /\ UNCHANGED <<apps, appName, creds, requests, op>>

\* userResourceRead, lines 295-317: the attributes of the record are stored
userResourceRead_Set(data, user) ==
    [data EXCEPT !.mail_nickname = StringOf(user.MailNickname),
                 !.object_id = StringOf(user.ID),
                 !.user_principal_name = StringOf(user.UserPrincipalName)]

\* Mutant of userResourceRead: not-found is reported as an error like any other.
userResourceRead_NotFoundIsError(p) ==
    /\ op[p] \in {"userResourceCreate", "userResourceUpdate", "userResourceRead"}
    /\ pc[p] = "read"
    /\ \E r \in GetResponses(d[p].id, users) :
        /\ Call(p, "Get", r)
        /\ Exit(p, IF r.err THEN "remote_error" ELSE "ok")
    /\ UNCHANGED <<remote, op, d, local>>

\* userResourceRead, lines 281-319: the handler, and the tail of Create (line 236)
\* and of Update (line 277)
userResourceRead(p) ==
    /\ op[p] \in {"userResourceCreate", "userResourceUpdate", "userResourceRead"}
    /\ pc[p] = "read"
    /\ \E r \in GetResponses(d[p].id, users) :
        /\ Call(p, "Get", r)
        /\ IF r.err THEN
              IF r.status = StatusNotFound
              THEN d' = [d EXCEPT ![p].id = EmptyString] /\ Exit(p, "ok")
              ELSE UNCHANGED d /\ Exit(p, "remote_error")
           ELSE
              /\ d' = [d EXCEPT ![p] = userResourceRead_Set(d[p],
                                          UserRecord(TheNamed(d[p].id, users)))]
              /\ Exit(p, "ok")
    /\ UNCHANGED <<remote, op, local>>

\* Attributes userResourceUpdate always copies into the record it sends
\* (lines 242-260; the ID of line 243 addresses the record and is not listed).
UserAlwaysSent ==
    {"account_enabled", "city", "company_name", "country", "department",
     "display_name", "given_name", "job_title", "mail_nickname", "mobile_phone",
     "office_location", "postal_code", "state", "street_address", "surname",
     "usage_location"}

\* Attributes of the schema (lines 40-45, 47-51, 116-120, 132-138) whose value a
\* new configuration may change on a stored user.
UserChangeable ==
    {"display_name", "password", "onpremises_immutable_id", "user_principal_name"}

\* line 43: user_principal_name is the one attribute declared ForceNew.  The
\* host answers a change of a ForceNew attribute by replacing the resource
\* (userResourceDelete, then userResourceCreate) and never by userResourceUpdate.
UserForceNew == {"user_principal_name"}

\* The change sets the host applies in place (through userResourceUpdate), and
\* those it applies by replacement.
UserInPlaceChanges == {ch \in SUBSET UserChangeable : ch \cap UserForceNew = {}}

UserReplaceChanges == {ch \in SUBSET UserChangeable : ch \cap UserForceNew # {}}

\* Mutant of userResourceUpdatePayload: the password profile is always sent.
userResourceUpdatePayload_AlwaysPassword(changed) ==
    UserAlwaysSent
        \cup {"password"}
        \cup (IF "onpremises_immutable_id" \in changed
              THEN {"onpremises_immutable_id"} ELSE {})

\* lines 242-271: the attributes of the record Update sends
userResourceUpdatePayload(changed) ==
    UserAlwaysSent
        \cup (IF "password" \in changed THEN {"password"} ELSE {})
        \cup (IF "onpremises_immutable_id" \in changed
              THEN {"onpremises_immutable_id"} ELSE {})

\* Mutant of userResourceUpdateStart: user_principal_name is not ForceNew, so
\* its change is handed to userResourceUpdate like any other.
userResourceUpdateStart_NoForceNew(p) ==
    \E u \in UserIds, ch \in SUBSET UserChangeable :
        /\ Begin(p, "userResourceUpdate", [NoData EXCEPT !.id = Str(u), !.changed = ch])
        /\ Goto(p, "update")
        /\ UNCHANGED <<remote, local>>

\* userResourceUpdate, lines 240-271: the host calls it on a stored user with
\* the set of changed attributes, none of them ForceNew (line 43)
userResourceUpdateStart(p) ==
    \E u \in UserIds, ch \in UserInPlaceChanges :
        /\ Begin(p, "userResourceUpdate", [NoData EXCEPT !.id = Str(u), !.changed = ch])
        /\ Goto(p, "update")
        /\ UNCHANGED <<remote, local>>

\* line 43 (ForceNew) with userResourceDelete, lines 323-332: a change set that
\* holds user_principal_name is applied by replacement, which begins with
\* userResourceDelete on the stored user; d keeps the change set that caused
\* it.  The host then creates the new user (userResourceCreateStart).
userResourceReplaceStart(p) ==
    \E u \in UserIds, ch \in UserReplaceChanges :
        /\ Begin(p, "userResourceDelete", [NoData EXCEPT !.id = Str(u), !.changed = ch])
        /\ Goto(p, "delete_get")
        /\ UNCHANGED <<remote, local>>

\* Mutant of userResourceUpdate_Update: a failed update is ignored.
userResourceUpdate_Update_ErrorSwallowed(p) ==
    /\ op[p] = "userResourceUpdate" /\ pc[p] = "update"
    /\ \E r \in GetResponses(d[p].id, users) :
        /\ Call(p, "Update", [payload |-> userResourceUpdatePayload(d[p].changed)] @@ r)
        /\ Goto(p, "read")
    /\ UNCHANGED <<remote, op, d, local>>

\* lines 273-277
userResourceUpdate_Update(p) ==
    /\ op[p] = "userResourceUpdate" /\ pc[p] = "update"
    /\ \E r \in GetResponses(d[p].id, users) :
        /\ Call(p, "Update", [payload |-> userResourceUpdatePayload(d[p].changed)] @@ r)
        /\ IF r.err THEN Exit(p, "remote_error") ELSE Goto(p, "read")
    /\ UNCHANGED <<remote, op, d, local>>

\* The host calls userResourceRead on a stored resource.
userResourceReadStart(p) ==
    \E u \in UserIds :
        /\ Begin(p, "userResourceRead", [NoData EXCEPT !.id = Str(u)])
        /\ Goto(p, "read")
        /\ UNCHANGED <<remote, local>>

\* userResourceDelete, lines 323-332
userResourceDeleteStart(p) ==
    \E u \in UserIds :
        /\ Begin(p, "userResourceDelete", [NoData EXCEPT !.id = Str(u)])
        /\ Goto(p, "delete_get")
        /\ UNCHANGED <<remote, local>>

userResourceDelete_Get(p) ==
    /\ op[p] = "userResourceDelete" /\ pc[p] = "delete_get"
    /\ \E r \in GetResponses(d[p].id, users) :
        /\ Call(p, "Get", r)
        /\ IF r.err THEN
              Exit(p, IF r.status = StatusNotFound THEN "not_found" ELSE "remote_error")
           ELSE Goto(p, "delete")
    /\ UNCHANGED <<remote, op, d, local>>

\* lines 334-339
userResourceDelete_Delete(p) ==
    /\ op[p] = "userResourceDelete" /\ pc[p] = "delete"
    /\ \E r \in DeleteResponses(d[p].id, users) :
        /\ Call(p, "Delete", r)
        /\ users' = IF r.removed THEN users \ Named(d[p].id, users) ELSE users
        /\ Exit(p, IF r.err THEN "remote_error" ELSE "ok")
    /\ UNCHANGED <<apps, appName, creds, requests, op, d, local>>

\* ------------------------------------------------------ azuread_user (data)
\* fmt.Sprintf("userPrincipalName eq '%s'", upn) and
\* fmt.Sprintf("mailNickname eq '%s'", mailNickname)
EqFilter(field, value) == Str(field \o " eq '") \o value \o Str("'")

\* The users a filter built by EqFilter selects.
FilterMatches(filter) ==
    LET value == SubSeq(filter, 2, Len(filter) - 1) IN
    IF filter[1] = "userPrincipalName eq '" THEN {u \in users : UserPrincipalNameOf(u) = value}
    ELSE IF filter[1] = "mailNickname eq '" THEN {u \in users : MailNicknameOf(u) = value}
    ELSE {}

\* client.List(ctx, filter) of the users client: an error, a nil result, or the
\* matching users in some order, one of them possibly without its ID.
UsersListResponses(filter) ==
    LET match == FilterMatches(filter)
        full == {[i \in 1..Len(t) |-> UserRecord(t[i])] : t \in Orders(match)}
        holed == {[l EXCEPT ![i].ID = None] : l \in full, i \in 1..Cardinality(match)}
    IN  {[err |-> TRUE, status |-> 500, result |-> None],
         [err |-> FALSE, status |-> 200, result |-> None]}
        \cup {[err |-> FALSE, status |-> 200, result |-> Some(l)] : l \in full \cup holed}

\* client.Get(ctx, objectId) of the users client, with the record it returns:
\* nil, the user, or the user without its ID.
UsersGetResponses(id) ==
    IF Named(id, users) # {}
    THEN {[err |-> FALSE, status |-> 200, user |-> Some(UserRecord(TheNamed(id, users)))],
          [err |-> FALSE, status |-> 200,
           user |-> Some([UserRecord(TheNamed(id, users)) EXCEPT !.ID = None])],
          [err |-> FALSE, status |-> 200, user |-> None],
          [err |-> TRUE, status |-> 500, user |-> None]}
    ELSE {[err |-> TRUE, status |-> StatusNotFound, user |-> None],
          [err |-> TRUE, status |-> 500, user |-> None]}

\* Mutant of userDataSourceRead_List: of several users the first is taken.
userDataSourceRead_List_TakesFirst(p, filter) ==
    \E r \in UsersListResponses(filter) :
        /\ Call(p, "List", [filter |-> filter] @@ r)
        /\ IF r.err THEN UNCHANGED d /\ Exit(p, "remote_error")
           ELSE IF r.result = None THEN UNCHANGED d /\ Exit(p, "bad_api_response")
           ELSE IF Len(r.result[1]) = 0 THEN UNCHANGED d /\ Exit(p, "not_found")
           ELSE userDataSourceRead_Found(p, r.result[1][1])

\* userDataSourceRead, lines 160-174 and 189-203: the lookup by a filter
userDataSourceRead_List(p, filter) ==
    \E r \in UsersListResponses(filter) :
        /\ Call(p, "List", [filter |-> filter] @@ r)
        /\ IF r.err THEN UNCHANGED d /\ Exit(p, "remote_error")
           ELSE IF r.result = None THEN UNCHANGED d /\ Exit(p, "bad_api_response")
           ELSE IF Len(r.result[1]) > 1 THEN UNCHANGED d /\ Exit(p, "more_than_one")
           ELSE IF Len(r.result[1]) = 0 THEN UNCHANGED d /\ Exit(p, "not_found")
           ELSE userDataSourceRead_Found(p, r.result[1][1])

\* userDataSourceRead, lines 176-187: the lookup by object ID
userDataSourceRead_Get(p, objectId) ==
    \E r \in UsersGetResponses(objectId) :
        /\ Call(p, "Get", [filter |-> objectId,
                           ID |-> IF r.user = None THEN None ELSE r.user[1].ID] @@ r)
        /\ IF r.err THEN
              /\ UNCHANGED d
              /\ Exit(p, IF r.status = StatusNotFound THEN "not_found" ELSE "remote_error")
           ELSE IF r.user = None THEN UNCHANGED d /\ Exit(p, "not_found")
           ELSE userDataSourceRead_Found(p, r.user[1])

\* Mutant of userDataSourceRead: the object ID is looked at first.
userDataSourceRead_ObjectIdFirst(p) ==
    /\ op[p] = "userDataSourceRead" /\ pc[p] = "lookup"
    /\ IF d[p].object_id # EmptyString THEN
          userDataSourceRead_Get(p, d[p].object_id)
       ELSE IF d[p].user_principal_name # EmptyString THEN
          userDataSourceRead_List(p, EqFilter("userPrincipalName", d[p].user_principal_name))
       ELSE IF d[p].mail_nickname # EmptyString THEN
          userDataSourceRead_List(p, EqFilter("mailNickname", d[p].mail_nickname))
       ELSE
          UNCHANGED <<d, calls>> /\ Exit(p, "missing_argument")
    /\ UNCHANGED <<remote, op, local>>

\* userDataSourceRead, lines 154-238
userDataSourceRead(p) ==
    /\ op[p] = "userDataSourceRead" /\ pc[p] = "lookup"
    /\ IF d[p].user_principal_name # EmptyString THEN
          userDataSourceRead_List(p, EqFilter("userPrincipalName", d[p].user_principal_name))
       ELSE IF d[p].object_id # EmptyString THEN
          userDataSourceRead_Get(p, d[p].object_id)
       ELSE IF d[p].mail_nickname # EmptyString THEN
          userDataSourceRead_List(p, EqFilter("mailNickname", d[p].mail_nickname))
       ELSE
          UNCHANGED <<d, calls>> /\ Exit(p, "missing_argument")
    /\ UNCHANGED <<remote, op, local>>

\* The host reads the data source with the configured arguments.
userDataSourceReadStart(p) ==
    \E upn \in {EmptyString, Str("upn1"), Str("upn2")},
       objectId \in {EmptyString} \cup {Str(u) : u \in UserIds},
       mailNickname \in {EmptyString, Str("nick1"), Str("nick2")} :
        /\ Begin(p, "userDataSourceRead",
                 [NoData EXCEPT !.user_principal_name = upn, !.object_id = objectId,
                                !.mail_nickname = mailNickname])
        /\ Goto(p, "lookup")
        /\ UNCHANGED <<remote, local>>

\* ---------------------------------------------------------- azuread_domains
DomainNames == {"d1", "d2"}
TenantId == "t1"
DomainFlags == {"IsAdminManaged", "IsDefault", "IsInitial", "IsRoot", "IsVerified"}

\* The *bool fields of a domain: all nil, all true, all false, or one false
\* among true ones.
FlagProfiles ==
    {[f \in DomainFlags |-> None], [f \in DomainFlags |-> Some(TRUE)],
     [f \in DomainFlags |-> Some(FALSE)]}
    \cup {[f \in DomainFlags |-> IF f = g THEN Some(FALSE) ELSE Some(TRUE)] : g \in DomainFlags}

\* msgraph.Domain
Domain(id, flags, services) ==
    [ID |-> id, AuthenticationType |-> Some(Str("Managed")),
     IsAdminManaged |-> flags["IsAdminManaged"], IsDefault |-> flags["IsDefault"],
     IsInitial |-> flags["IsInitial"], IsRoot |-> flags["IsRoot"],
     IsVerified |-> flags["IsVerified"], SupportedServices |-> services]

\* The records the directory may return for the domain n: with or without ID,
\* with any flag profile and no service list, or all flags true and a service list.
DomainVariants(n) ==
    {Domain(id, flags, None) : id \in {None, Some(Str(n))}, flags \in FlagProfiles}
    \cup {Domain(id, [f \in DomainFlags |-> Some(TRUE)], Some(s)) :
            id \in {None, Some(Str(n))},
            s \in {<< >>, <<"Email">>, <<"Email", "Intune">>}}

\* The lists client.List may return: some of the domains, in some order.
DomainLists ==
    UNION {
        {l \in [1..Len(t) -> UNION {DomainVariants(n) : n \in DomainNames}] :
            \A i \in 1..Len(t) : l[i] \in DomainVariants(t[i])} :
        t \in UNION {Orders(S) : S \in SUBSET DomainNames}}

\* client.List(ctx) of the domains client: (result, status, err)
DomainsListResponses ==
    {[err |-> TRUE, status |-> 500, result |-> None],
     [err |-> FALSE, status |-> 200, result |-> None]}
    \cup {[err |-> FALSE, status |-> 200, result |-> Some(l)] : l \in DomainLists}

\* lines 145-157: how many of the services asked for the domain supports
SupportedCount(supportsServices, v) ==
    Cardinality({i \in 1..Len(supportsServices) :
                    \E j \in 1..Len(v.SupportedServices[1]) :
                        supportsServices[i] = v.SupportedServices[1][j]})

\* Mutant of DomainSkipped: a domain whose IsVerified is nil counts as unverified.
DomainSkipped_NilIsUnverified(data, v) ==
    IF data.admin_managed /\ v.IsAdminManaged # None /\ ~v.IsAdminManaged[1] THEN TRUE
    ELSE IF data.only_default /\ v.IsDefault # None /\ ~v.IsDefault[1] THEN TRUE
    ELSE IF data.only_initial /\ v.IsInitial # None /\ ~v.IsInitial[1] THEN TRUE
    ELSE IF data.only_root /\ v.IsRoot # None /\ ~v.IsRoot[1] THEN TRUE
    ELSE IF ~data.include_unverified /\ (v.IsVerified = None \/ ~v.IsVerified[1]) THEN TRUE
    ELSE IF Len(data.supports_services) > 0 /\ v.SupportedServices # None
         THEN SupportedCount(data.supports_services, v) < Len(data.supports_services)
    ELSE FALSE

\* lines 130-157: the loop body reaches a continue for the domain v
DomainSkipped(data, v) ==
    IF data.admin_managed /\ v.IsAdminManaged # None /\ ~v.IsAdminManaged[1] THEN TRUE
    ELSE IF data.only_default /\ v.IsDefault # None /\ ~v.IsDefault[1] THEN TRUE
    ELSE IF data.only_initial /\ v.IsInitial # None /\ ~v.IsInitial[1] THEN TRUE
    ELSE IF data.only_root /\ v.IsRoot # None /\ ~v.IsRoot[1] THEN TRUE
    ELSE IF ~data.include_unverified /\ v.IsVerified # None /\ ~v.IsVerified[1] THEN TRUE
    ELSE IF Len(data.supports_services) > 0 /\ v.SupportedServices # None
         THEN SupportedCount(data.supports_services, v) < Len(data.supports_services)
    ELSE FALSE

\* lines 163-172: the map stored for a domain
DomainMap(v) ==
    [admin_managed |-> v.IsAdminManaged, authentication_type |-> v.AuthenticationType,
     default |-> v.IsDefault, domain_name |-> v.ID, initial |-> v.IsInitial,
     root |-> v.IsRoot, supported_services |-> v.SupportedServices,
     verified |-> v.IsVerified]

\* lines 128-175: the loop over the result, from its element i on
RECURSIVE DomainsFrom(_, _, _)
DomainsFrom(data, result, i) ==
    IF i > Len(result) THEN << >>
    ELSE IF DomainSkipped(data, result[i]) THEN DomainsFrom(data, result, i + 1)
    ELSE IF result[i].ID # None
         THEN <<DomainMap(result[i])>> \o DomainsFrom(data, result, i + 1)
    ELSE DomainsFrom(data, result, i + 1)

\* strings.Join(domainNames, "/")
RECURSIVE JoinNames(_)
JoinNames(domains) ==
    IF domains = << >> THEN << >>
    ELSE IF Len(domains) = 1 THEN domains[1].domain_name[1]
    ELSE domains[1].domain_name[1] \o Str(Sep) \o JoinNames(Tail(domains))

\* lines 182-188: "domains#" tenant "#" base64(sha1(joined names)); the digest
\* is kept as the text it is the digest of
DomainsId(domains) ==
    <<"domains", "#", TenantId, "#", "sha1">> \o JoinNames(domains)

\* domainsDataSourceRead, lines 113-193
domainsDataSourceRead(p) ==
    /\ op[p] = "domainsDataSourceRead" /\ pc[p] = "list"
    /\ \E r \in DomainsListResponses :
        /\ Call(p, "List", r)
        /\ IF r.err THEN
              UNCHANGED d /\ Exit(p, "remote_error")
           ELSE
              LET domains == IF r.result = None THEN << >>
                             ELSE DomainsFrom(d[p], r.result[1], 1) IN
              IF Len(domains) = 0 THEN
                 UNCHANGED d /\ Exit(p, "no_domains")
              ELSE
                 /\ d' = [d EXCEPT ![p].id = DomainsId(domains), ![p].domains = domains]
                 /\ Exit(p, "ok")
    /\ UNCHANGED <<remote, op, local>>

\* The host reads the data source with the configured filters.
domainsDataSourceReadStart(p) ==
    \E adminManaged \in BOOLEAN, onlyDefault \in BOOLEAN, onlyInitial \in BOOLEAN,
       onlyRoot \in BOOLEAN, includeUnverified \in BOOLEAN,
       supportsServices \in {<< >>, <<"Email">>, <<"Intune", "Email">>} :
        /\ Begin(p, "domainsDataSourceRead",
                 [NoData EXCEPT !.admin_managed = adminManaged, !.only_default = onlyDefault,
                                !.only_initial = onlyInitial, !.only_root = onlyRoot,
                                !.include_unverified = includeUnverified,
                                !.supports_services = supportsServices])
        /\ Goto(p, "list")
        /\ UNCHANGED <<remote, local>>

\* ------------------------------ azuread_access_package_resource_request
\* accessPackageResourceRequestResourceCreate, lines 103-116
accessPackageResourceRequestResourceCreateStart(p) ==
    /\ Begin(p, "accessPackageResourceRequestResourceCreate", NoData)
    /\ Goto(p, "create")
    /\ UNCHANGED <<remote, local>>

\* lines 118-127
accessPackageResourceRequestResourceCreate_Create(p) ==
    /\ op[p] = "accessPackageResourceRequestResourceCreate" /\ pc[p] = "create"
    /\ \E r \in CreateResponses(RequestIds \ requests) :
        /\ Call(p, "Create", r)
        /\ requests' = IF r.created = None THEN requests ELSE requests \cup {r.created[1]}
        /\ IF r.err THEN
              Exit(p, "remote_error") /\ UNCHANGED <<d, local>>
           ELSE IF r.ID = None \/ r.ID[1] = EmptyString THEN
              Exit(p, "bad_api_response") /\ UNCHANGED <<d, local>>
           ELSE
              /\ d' = [d EXCEPT ![p].id = r.ID[1]]
              /\ local' = [local EXCEPT ![p].appId = r.ID]
              /\ Goto(p, "resource_read")
    /\ UNCHANGED <<apps, appName, creds, users, op>>

\* accessPackageResourceRead, the tail of Create (line 129): a Read of the
\* generic pattern, here fetching by the identity Create has just stored
accessPackageResourceRead(p) ==
    /\ op[p] = "accessPackageResourceRequestResourceCreate" /\ pc[p] = "resource_read"
    /\ \E r \in GetResponses(d[p].id, requests) :
        /\ Call(p, "Get", r)
        /\ IF r.err THEN
              IF r.status = StatusNotFound
              THEN d' = [d EXCEPT ![p].id = EmptyString] /\ Exit(p, "ok")
              ELSE UNCHANGED d /\ Exit(p, "remote_error")
           ELSE
              UNCHANGED d /\ Exit(p, "ok")
    /\ UNCHANGED <<remote, op, local>>

\* accessPackageResourceRequestResourceRead, lines 133-161
accessPackageResourceRequestResourceRead(p) ==
    /\ op[p] = "accessPackageResourceRequestResourceRead" /\ pc[p] = "read"
    /\ \E r \in GetResponses(d[p].id, requests) :
        /\ Call(p, "Get", r)
        /\ IF r.err THEN
              IF r.status = StatusNotFound
              THEN d' = [d EXCEPT ![p].id = EmptyString] /\ Exit(p, "ok")
              ELSE UNCHANGED d /\ Exit(p, "remote_error")
           ELSE
              UNCHANGED d /\ Exit(p, "ok")
    /\ UNCHANGED <<remote, op, local>>

\* The host calls accessPackageResourceRequestResourceRead on a stored resource.
accessPackageResourceRequestResourceReadStart(p) ==
    \E q \in RequestIds :
        /\ Begin(p, "accessPackageResourceRequestResourceRead", [NoData EXCEPT !.id = Str(q)])
        /\ Goto(p, "read")
        /\ UNCHANGED <<remote, local>>

\* accessPackageResourceRequestResourceDelete, lines 165-176
accessPackageResourceRequestResourceDeleteStart(p) ==
    \E q \in RequestIds :
        /\ Begin(p, "accessPackageResourceRequestResourceDelete", [NoData EXCEPT !.id = Str(q)])
        /\ Goto(p, "delete_get")
        /\ UNCHANGED <<remote, local>>

accessPackageResourceRequestResourceDelete_Get(p) ==
    /\ op[p] = "accessPackageResourceRequestResourceDelete" /\ pc[p] = "delete_get"
    /\ \E r \in GetResponses(d[p].id, requests) :
        /\ Call(p, "Get", r)
        /\ IF r.err THEN
              Exit(p, IF r.status = StatusNotFound THEN "ok" ELSE "remote_error")
           ELSE Goto(p, "delete")
    /\ UNCHANGED <<remote, op, d, local>>

\* lines 178-183
accessPackageResourceRequestResourceDelete_Delete(p) ==
    /\ op[p] = "accessPackageResourceRequestResourceDelete" /\ pc[p] = "delete"
    /\ \E r \in DeleteResponses(d[p].id, requests) :
        /\ Call(p, "Delete", r)
        /\ requests' = IF r.removed THEN requests \ Named(d[p].id, requests) ELSE requests
        /\ Exit(p, IF r.err THEN "remote_error" ELSE "ok")
    /\ UNCHANGED <<apps, appName, creds, users, op, d, local>>

\* ------------------------------------------------------------ specifications
PasswordStep(p) ==
    \/ applicationPasswordResourceCreate(p)
    \/ applicationPasswordResourceCreate_Lock(p)
    \/ applicationPasswordResourceCreate_Get(p)
    \/ applicationPasswordResourceCreate_AddPassword(p)
    \/ applicationPasswordResourceRead(p)
    \/ applicationPasswordResourceDelete_Lock(p)
    \/ applicationPasswordResourceDelete_RemovePassword(p)

UpdateStep(p) ==
    \/ applicationDisableAppRoles(p)
    \/ applicationDisableOauth2PermissionScopes(p)
    \/ applicationResourceUpdate_Update(p)
    \/ applicationSetOwners_Lock(p)
    \/ applicationSetOwners(p)
    \/ applicationResourceRead(p)
    \/ applicationResourceRead_ListOwners(p)

\* The password handlers running concurrently, on any application.
Next ==
    \E p \in Procs :
        \/ PasswordStep(p)
        \/ applicationPasswordResourceDelete(p, ValidPasswordIds)
        \/ Finish(p)

Spec == Init /\ [][Next]_vars

\* The password handlers on one slot and applicationResourceUpdate on another,
\* running concurrently.
NextApp ==
    \/ \E p \in {"p1"} :
        \/ PasswordStep(p)
        \/ applicationPasswordResourceDelete(p, ValidPasswordIds)
        \/ Finish(p)
    \/ \E p \in {"p2"} :
        \/ applicationResourceUpdate(p, ObjectIds, {"n1"}, {FALSE}, {{"app_role"}})
        \/ UpdateStep(p)
        \/ Finish(p)

SpecApp == Init /\ [][NextApp]_vars

\* One handler at a time, of any resource, on any stored identity.
NextSeq ==
    \E p \in SeqProcs :
        \/ PasswordStep(p)
        \/ applicationPasswordResourceDelete(p, StoredPasswordIds)
        \/ applicationPasswordResourceReadStart(p, StoredPasswordIds)
        \/ applicationResourceCreate(p, {"n1"}, BOOLEAN)
        \/ applicationResourceCreate_FindByName(p)
        \/ applicationResourceCreate_Create(p)
        \/ applicationResourceUpdate(p, ObjectIds, {"n1"}, BOOLEAN, {{"display_name"}})
        \/ applicationResourceUpdate_FindByName(p)
        \/ UpdateStep(p)
        \/ applicationResourceReadStart(p, ObjectIds)
        \/ applicationResourceDeleteStart(p, ObjectIds)
        \/ applicationResourceDelete_Get(p)
        \/ applicationResourceDelete_Delete(p)
        \/ userResourceCreateStart(p)
        \/ userResourceCreate_Create(p)
        \/ userResourceRead(p)
        \/ userResourceReadStart(p)
        \/ userResourceUpdateStart(p)
        \/ userResourceReplaceStart(p)
        \/ userResourceUpdate_Update(p)
        \/ userResourceDeleteStart(p)
        \/ userResourceDelete_Get(p)
        \/ userResourceDelete_Delete(p)
        \/ accessPackageResourceRequestResourceCreateStart(p)
        \/ accessPackageResourceRequestResourceCreate_Create(p)
        \/ accessPackageResourceRead(p)
        \/ accessPackageResourceRequestResourceRead(p)
        \/ accessPackageResourceRequestResourceReadStart(p)
        \/ accessPackageResourceRequestResourceDeleteStart(p)
        \/ accessPackageResourceRequestResourceDelete_Get(p)
        \/ accessPackageResourceRequestResourceDelete_Delete(p)
        \/ Finish(p)

SpecSeq == InitSeq /\ [][NextSeq]_vars

\* The state upgrader on stored v0 states.
NextUpgrade ==
    \E p \in SeqProcs :
        \/ resourceApplicationPasswordInstanceStateUpgradeV0Start(p)
        \/ resourceApplicationPasswordInstanceStateUpgradeV0(p)
        \/ Finish(p)

SpecUpgrade == Init /\ [][NextUpgrade]_vars

\* The directory holds any set of users.
InitData ==
    /\ apps = {}
    /\ appName = [o \in ObjectIds |-> "n1"]
    /\ creds = [o \in ObjectIds |-> {}]
    /\ users \in SUBSET UserIds
    /\ requests = {}
    /\ InitHost

\* The data sources, read one at a time.
NextData ==
    \E p \in SeqProcs :
        \/ userDataSourceReadStart(p)
        \/ userDataSourceRead(p)
        \/ Finish(p)

SpecData == InitData /\ [][NextData]_vars

\* Two applicationResourceCreate invocations running concurrently, with the
\* same display name and the duplicate-name guard on.
NextRace ==
    \E p \in Procs :
        \/ applicationResourceCreate(p, {"n1"}, {TRUE})
        \/ applicationResourceCreate_FindByName(p)
        \/ applicationResourceCreate_Create(p)
        \/ applicationSetOwners_Lock(p)
        \/ applicationSetOwners(p)
        \/ applicationResourceRead(p)
        \/ applicationResourceRead_ListOwners(p)
        \/ Finish(p)

SpecRace == Init /\ [][NextRace]_vars

\* The directory holds no application, user or request (the domains are what
\* client.List returns).
InitDomains ==
    /\ apps = {}
    /\ appName = [o \in ObjectIds |-> "n1"]
    /\ creds = [o \in ObjectIds |-> {}]
    /\ users = {}
    /\ requests = {}
    /\ InitHost

\* The domains data source, read under any filters.
NextDomains ==
    \E p \in SeqProcs :
        \/ domainsDataSourceReadStart(p)
        \/ domainsDataSourceRead(p)
        \/ Finish(p)

SpecDomains == InitDomains /\ [][NextDomains]_vars

\* The directory holds any set of applications under any display names.
InitNames ==
    /\ apps \in SUBSET ObjectIds
    /\ appName \in [ObjectIds -> DisplayNames]
    /\ \A o \in ObjectIds \ apps : appName[o] = "n1"
    /\ creds = [o \in ObjectIds |-> {}]
    /\ users = {}
    /\ requests = {}
    /\ InitHost

\* The application resource at plan time and at apply time, one handler at a
\* time, under any display name and with the duplicate-name guard on or off.
NextNames ==
    \E p \in SeqProcs :
        \/ applicationResourceCustomizeDiff(p, {EmptyString} \cup {Str(o) : o \in ObjectIds},
                                            {EmptyString} \cup {Str(n) : n \in DisplayNames},
                                            DisplayNames, BOOLEAN, BOOLEAN)
        \/ applicationResourceCustomizeDiff_FindByName(p)
        \/ applicationResourceCreate(p, DisplayNames, BOOLEAN)
        \/ applicationResourceCreate_FindByName(p)
        \/ applicationResourceCreate_Create(p)
        \/ applicationResourceUpdate(p, ObjectIds, DisplayNames, BOOLEAN, {{"display_name"}})
        \/ applicationResourceUpdate_FindByName(p)
        \/ UpdateStep(p)
        \/ Finish(p)

SpecNames == InitNames /\ [][NextNames]_vars

\* The password handlers under the scheduling the code relies on: a remote call
\* returns (weak fairness of the steps that follow one), and a handler waiting
\* for a name lock gets it if it is free again and again (sync.Mutex hands a
\* starving waiter the lock: strong fairness of the lock steps).
PasswordRemoteStep(p) ==
    \/ applicationPasswordResourceCreate_Get(p)
    \/ applicationPasswordResourceCreate_AddPassword(p)
    \/ applicationPasswordResourceRead(p)
    \/ applicationPasswordResourceDelete_RemovePassword(p)

PasswordLockStep(p) ==
    \/ applicationPasswordResourceCreate_Lock(p)
    \/ applicationPasswordResourceDelete_Lock(p)

SpecFair ==
    /\ Spec
    /\ \A p \in Procs : WF_vars(PasswordRemoteStep(p)) /\ SF_vars(PasswordLockStep(p))

\* ------------------------------------------------------------------- claims
PasswordMutators == {"applicationPasswordResourceCreate", "applicationPasswordResourceDelete"}

OwnKey(p) == LockKey(applicationResourceName, local[p].objectId)

\* The application whose password credentials p is working on between its
\* LockByName and its UnlockByName, as a set (empty outside that section).
PasswordSection(p) ==
    IF op[p] = "applicationPasswordResourceCreate" /\ pc[p] \in {"get", "add", "read"}
    THEN {local[p].objectId}
    ELSE IF op[p] = "applicationPasswordResourceDelete" /\ pc[p] = "remove"
    THEN {local[p].objectId}
    ELSE {}

\* C1: two password operations (Create and/or Delete) on the same application
\* are never both inside their remote-mutating sections.
C1_MutualExclusion ==
    \A p, q \in Procs : p # q => PasswordSection(p) \cap PasswordSection(q) = {}

\* One operation is about to call AddPassword while the other waits for the same key.
C1_Witness ==
    \E p, q \in Procs :
        /\ p # q
        /\ op[p] = "applicationPasswordResourceCreate" /\ pc[p] = "add"
        /\ op[q] \in PasswordMutators /\ pc[q] = "lock"
        /\ local[q].objectId = local[p].objectId

\* C2: when a password Create or Delete has returned, with any result, it holds
\* no name lock and has no unlock pending.
C2_LockReleasedOnExit ==
    \A p \in Procs :
        (op[p] \in PasswordMutators /\ pc[p] = "done")
            => (deferred[p] = << >> /\ \A k \in LockKeys : mutexKV[k] # p)

\* Create has returned an error after AddPassword answered without a key ID.
C2_Witness ==
    \E p \in Procs :
        /\ op[p] = "applicationPasswordResourceCreate" /\ pc[p] = "done"
        /\ ret[p] = "bad_api_response" /\ Len(calls[p]) = 2
        /\ calls[p][2].fn = "AddPassword"

\* The application whose sub-collections (credentials, roles, scopes, owners)
\* p is about to change or is changing, as a set.
MutatingSection(p) ==
    IF op[p] = "applicationResourceUpdate"
       /\ pc[p] \in {"roles_get", "roles_disable", "scopes_get", "scopes_disable",
                     "update", "owners"}
    THEN {d[p].id}
    ELSE PasswordSection(p)

\* C3: two operations that change a sub-collection of the same application are
\* never both inside their mutating sections (the name lock serializes them).
C3_SubCollectionsSerialized ==
    \A p, q \in Procs : p # q => MutatingSection(p) \cap MutatingSection(q) = {}

\* C4: a password operation waiting for its name lock can take it whenever no
\* other operation holds the key of its own application, whatever other keys
\* are held.
C4_IndependentParents ==
    \A p \in Procs :
        (op[p] \in PasswordMutators /\ pc[p] = "lock"
         /\ \A q \in Procs \ {p} : mutexKV[OwnKey(p)] # q)
            => ENABLED (applicationPasswordResourceCreate_Lock(p)
                        \/ applicationPasswordResourceDelete_Lock(p))

\* An operation on one application waits for its lock while another operation
\* holds the lock of a different application.
C4_Witness ==
    \E p, q \in Procs :
        /\ p # q
        /\ op[p] \in PasswordMutators /\ pc[p] = "lock"
        /\ \E k \in LockKeys : mutexKV[k] = q /\ k # OwnKey(p)
        /\ mutexKV[OwnKey(p)] = NoProc

\* C5: a password operation never waits for a key it holds, holds at most one
\* key, and, once started, eventually returns.
C5_NoDeadlock ==
    /\ [](\A p \in Procs :
            /\ (pc[p] = "lock" => mutexKV[OwnKey(p)] # p)
            /\ Cardinality({k \in LockKeys : mutexKV[k] = p}) <= 1)
    /\ \A p \in Procs : (op[p] \in PasswordMutators) ~> (pc[p] = "done")

\* Create is reading the credential back while it still holds the key another
\* operation waits for.
C5_Witness ==
    \E p, q \in Procs :
        /\ p # q
        /\ op[p] = "applicationPasswordResourceCreate" /\ pc[p] = "read"
        /\ mutexKV[OwnKey(p)] = p
        /\ op[q] \in PasswordMutators /\ pc[q] = "lock" /\ OwnKey(q) = OwnKey(p)

DeleteHandlers == {"userResourceDelete", "applicationResourceDelete",
                   "accessPackageResourceRequestResourceDelete"}

FirstGetNotFound(p) ==
    /\ calls[p] # << >>
    /\ calls[p][1].fn = "Get" /\ calls[p][1].err /\ calls[p][1].status = StatusNotFound

\* C6: a Delete whose read reported not-found has succeeded without calling the
\* delete primitive, for users, applications and access package resource requests.
C6_DeleteIdempotent ==
    \A p \in Procs :
        (op[p] \in DeleteHandlers /\ pc[p] = "done" /\ FirstGetNotFound(p))
            => (ret[p] = "ok" /\ Len(calls[p]) = 1)

\* The credential a stored identity names is not in the directory.
CredentialAbsent(id) ==
    ~\E o \in apps : Str(o) = id.ObjectId /\ \E k \in creds[o] : Str(k) = id.KeyId

\* C7: a password Delete whose credential or parent application is absent has
\* succeeded, unless the directory reported an error other than not-found.
C7_PasswordDeleteAbsentIsNoop ==
    \A p \in Procs :
        (op[p] = "applicationPasswordResourceDelete" /\ pc[p] = "done"
         /\ PasswordID(d[p].id) # None /\ CredentialAbsent(PasswordID(d[p].id)[1])
         /\ \A i \in 1..Len(calls[p]) : calls[p][i].status \in {StatusNotFound, 400, 204})
            => ret[p] = "ok"

ReadHandlers == {"userResourceRead", "applicationResourceRead",
                 "accessPackageResourceRequestResourceRead",
                 "applicationPasswordResourceRead"}

\* C8: a Read whose Get failed with status 404 has cleared the identity and
\* returned no error, making no further call.
C8_ReadNotFoundIsAbsent ==
    \A p \in Procs :
        (op[p] \in ReadHandlers /\ FirstGetNotFound(p))
            => (pc[p] = "done" /\ ret[p] = "ok" /\ d[p].id = EmptyString
                /\ Len(calls[p]) = 1)

\* applicationResourceRead has returned after the directory answered 404.
C8_Witness ==
    \E p \in Procs :
        /\ op[p] = "applicationResourceRead" /\ pc[p] = "done"
        /\ FirstGetNotFound(p) /\ d[p].id = EmptyString

LastCall(p) == calls'[p][Len(calls'[p])]

\* In this step the Get of a Read fails with a status other than 404.
ReadGetFails(p) ==
    /\ pc[p] = "read" /\ Len(calls'[p]) = Len(calls[p]) + 1
    /\ LastCall(p).fn = "Get" /\ LastCall(p).err /\ LastCall(p).status # StatusNotFound

\* In this step the ListOwners of applicationResourceRead fails.
ListOwnersFails(p) ==
    /\ pc[p] = "list_owners" /\ Len(calls'[p]) = Len(calls[p]) + 1
    /\ LastCall(p).fn = "ListOwners" /\ LastCall(p).err

\* C9: a Read whose Get fails with a status other than 404, or whose ListOwners
\* fails, returns an error and leaves the identity as it was.
C9_ReadFailureKeepsIdentity ==
    [][\A p \in Procs :
          (ReadGetFails(p) \/ ListOwnersFails(p))
              => (pc'[p] = "done" /\ ret'[p] = "remote_error" /\ d'[p].id = d[p].id)]_vars

\* applicationResourceRead has returned an error after ListOwners failed, its
\* identity still set.
C9_Witness ==
    \E p \in Procs :
        /\ op[p] = "applicationResourceRead" /\ pc[p] = "done"
        /\ Len(calls[p]) = 2 /\ calls[p][2].fn = "ListOwners" /\ calls[p][2].err
        /\ ret[p] = "remote_error" /\ d[p].id # EmptyString

CreateHandlers == {"userResourceCreate", "applicationResourceCreate",
                   "accessPackageResourceRequestResourceCreate"}

\* The create primitive answered without error and without a usable ID.
BadCreate(c) ==
    c.fn = "Create" /\ ~c.err /\ (c.ID = None \/ c.ID[1] = EmptyString)

\* C10: a Create whose create primitive returned a nil or empty ID has failed
\* with a bad-API-response error, set no identity and made no further call;
\* and an identity a Create has set is the ID its create primitive returned.
C10_CreateValidatesIdentity ==
    \A p \in Procs :
        op[p] \in CreateHandlers =>
            /\ \A i \in 1..Len(calls[p]) :
                  BadCreate(calls[p][i])
                      => /\ i = Len(calls[p])
                         /\ pc[p] = "done" /\ ret[p] = "bad_api_response"
                         /\ d[p].id = EmptyString
            /\ d[p].id # EmptyString
                  => \E i \in 1..Len(calls[p]) :
                        calls[p][i].fn = "Create" /\ calls[p][i].ID = Some(d[p].id)

\* applicationResourceCreate has returned after the directory answered the
\* create with an empty ID.
C10_Witness ==
    \E p \in Procs :
        /\ op[p] = "applicationResourceCreate" /\ pc[p] = "done"
        /\ calls[p] # << >> /\ BadCreate(calls[p][Len(calls[p])])
        /\ calls[p][Len(calls[p])].ID = Some(EmptyString)
        /\ ret[p] = "bad_api_response"

\* C11: applicationResourceCreate has stored the identity the create returned
\* before it writes the owners; when the owners write fails, Create returns an
\* error with the identity still set, the application still in the directory
\* and no delete call issued.
C11_IdentityBeforeOwners ==
    \A p \in Procs :
        op[p] = "applicationResourceCreate" =>
            /\ pc[p] \in {"owners_lock", "owners"}
                  => /\ d[p].id # EmptyString
                     /\ calls[p][Len(calls[p])].fn = "Create"
                     /\ calls[p][Len(calls[p])].ID = Some(d[p].id)
            /\ \A i \in 1..Len(calls[p]) :
                  (calls[p][i].fn = "SetOwners" /\ calls[p][i].err)
                      => /\ i = Len(calls[p])
                         /\ pc[p] = "done" /\ ret[p] = "remote_error"
                         /\ d[p].id # EmptyString
                         /\ calls[p][i - 1].fn = "Create"
                         /\ calls[p][i - 1].ID = Some(d[p].id)
                         /\ Named(d[p].id, apps) # {}
                         /\ \A j \in 1..Len(calls[p]) : calls[p][j].fn # "Delete"

\* Create has returned an error after the owners write failed.
C11_Witness ==
    \E p \in Procs :
        /\ op[p] = "applicationResourceCreate" /\ pc[p] = "done"
        /\ calls[p] # << >>
        /\ calls[p][Len(calls[p])].fn = "SetOwners" /\ calls[p][Len(calls[p])].err
        /\ ret[p] = "remote_error" /\ d[p].id # EmptyString

\* The objects the directory stored during this invocation and whose ID it
\* returned to the handler.
Made(p) ==
    {calls[p][i].made[1] :
        i \in {j \in 1..Len(calls[p]) :
                  /\ calls[p][j].made # None
                  /\ calls[p][j].ID = Some(Str(calls[p][j].made[1]))}}

\* The identity that names object x for the resource of handler h.
IdentityOf(p, x) ==
    IF op[p] = "applicationPasswordResourceCreate"
    THEN CredentialIDString(NewCredentialID(local[p].objectId, "password", Str(x)))
    ELSE Str(x)

\* C12: when a Create of a user, an application or an application password
\* returns, with success or with an error, and its create/add primitive stored
\* an object in the directory and returned its ID, the local identity names
\* that object; the identity is empty only when nothing was stored.
C12_CreatedNeverOrphaned ==
    \A p \in Procs :
        (pc[p] = "done"
         /\ op[p] \in {"userResourceCreate", "applicationResourceCreate",
                       "applicationPasswordResourceCreate"})
            => /\ \A x \in Made(p) : d[p].id = IdentityOf(p, x)
               /\ (\A i \in 1..Len(calls[p]) : calls[p][i].made = None)
                     => d[p].id = EmptyString

\* The invocations through which the host applies a change of
\* user_principal_name to a stored user.
AppliesPrincipalNameChange(p) ==
    op[p] # "idle" /\ "user_principal_name" \in d[p].changed

\* The client methods the invocation on p has called so far.
MethodsCalled(p) == {calls[p][i].fn : i \in 1..Len(calls[p])}

C14_MinimalDelta ==
    \A p \in Procs :
        op[p] \in {"userResourceUpdate", "applicationResourceUpdate"}
            => \A i \in 1..Len(calls[p]) :
                  calls[p][i].fn = "Update" => calls[p][i].payload \subseteq d[p].changed

\* The applications a successful name search listed as first call of p.
Listed(p) ==
    IF calls[p] # << >> /\ calls[p][1].fn = "List" /\ ~calls[p][1].err
       /\ calls[p][1].result # None
    THEN calls[p][1].result[1] ELSE << >>

Searched(p) == calls[p] # << >> /\ calls[p][1].fn = "List" /\ ~calls[p][1].err

\* With the guard off Create makes no name search and goes to the create
\* primitive; with the guard on its first call is the name search.
CreateGuardSwitch(p) ==
    IF d[p].prevent_duplicate_names
    THEN pc[p] = "find" \/ calls[p][1].fn = "List"
    ELSE pc[p] = "create" \/ calls[p][1].fn = "Create"

\* C15 as stated: with the guard on, when the name search lists one or more
\* applications, applicationResourceCreate fails with the duplicate error
\* carrying the identity of one of them and never calls the create primitive;
\* with the guard off it makes no name search and goes to the create primitive.
C15_CreateGuardAsStated ==
    \A p \in Procs :
        op[p] = "applicationResourceCreate" =>
            /\ CreateGuardSwitch(p)
            /\ Len(Listed(p)) > 0
                  => /\ pc[p] = "done" /\ Len(calls[p]) = 1
                     /\ ret[p] = "duplicate"
                     /\ \E i \in 1..Len(Listed(p)) : Listed(p)[i].ID = local[p].appId

\* C15 amended: as above, except that when the first listed application has no
\* ID Create fails with a bad-API-response error instead; the duplicate error
\* carries the identity of the first listed application.
C15_CreateGuard ==
    \A p \in Procs :
        op[p] = "applicationResourceCreate" =>
            /\ CreateGuardSwitch(p)
            /\ Len(Listed(p)) > 0
                  => /\ pc[p] = "done" /\ Len(calls[p]) = 1
                     /\ IF Listed(p)[1].ID = None
                        THEN ret[p] = "bad_api_response"
                        ELSE ret[p] = "duplicate" /\ local[p].appId = Listed(p)[1].ID

\* Create has failed as a duplicate of the first of two listed applications.
C15_Witness ==
    \E p \in Procs :
        /\ op[p] = "applicationResourceCreate" /\ pc[p] = "done"
        /\ Len(Listed(p)) = 2 /\ ret[p] = "duplicate"
        /\ local[p].appId = Listed(p)[1].ID

\* A listed application other than the one being updated, with no listed
\* application before it lacking its ID.
UpdateConflicts(p) ==
    {i \in 1..Len(Listed(p)) :
        /\ Listed(p)[i].ID # None /\ Listed(p)[i].ID[1] # d[p].id
        /\ \A j \in 1..(i - 1) : Listed(p)[j].ID # None}

\* C16: with the guard on, applicationResourceUpdate fails with the duplicate
\* error, before any disable or update call, exactly when the name search lists
\* an application other than the one being updated with no application lacking
\* its ID listed before it; a list holding only the application itself lets
\* Update proceed.
C16_UpdateGuard ==
    \A p \in Procs :
        (op[p] = "applicationResourceUpdate" /\ d[p].prevent_duplicate_names) =>
            /\ pc[p] = "find" \/ calls[p][1].fn = "List"
            /\ Searched(p) =>
                  /\ UpdateConflicts(p) # {}
                        => /\ pc[p] = "done" /\ Len(calls[p]) = 1
                           /\ ret[p] = "duplicate"
                           /\ \E i \in UpdateConflicts(p) : local[p].appId = Listed(p)[i].ID
                  /\ UpdateConflicts(p) = {} => ret[p] # "duplicate"
                  /\ (\A i \in 1..Len(Listed(p)) : Listed(p)[i].ID = Some(d[p].id))
                        => ~(pc[p] = "done" /\ Len(calls[p]) = 1)

\* Update has gone past a name search that listed only the application itself.
C16_Witness ==
    \E p \in Procs :
        /\ op[p] = "applicationResourceUpdate" /\ d[p].prevent_duplicate_names
        /\ Len(Listed(p)) = 1 /\ Listed(p)[1].ID = Some(d[p].id)
        /\ Len(calls[p]) > 1

\* C17: when applicationResourceCustomizeDiff has searched the name and every
\* listed application has its ID, it fails with the duplicate error exactly
\* when the resource is being created and an application is listed, or the
\* resource exists and a listed application has another identity.
C17_PlanGuard ==
    \A p \in Procs :
        (op[p] = "applicationResourceCustomizeDiff" /\ pc[p] = "done" /\ Searched(p)
         /\ \A i \in 1..Len(Listed(p)) : Listed(p)[i].ID # None)
            => (ret[p] = "duplicate"
                <=> \/ d[p].id = EmptyString /\ Len(Listed(p)) > 0
                    \/ /\ d[p].id # EmptyString
                       /\ \E i \in 1..Len(Listed(p)) : Listed(p)[i].ID[1] # d[p].id)

\* C18: when the app roles / permission scopes carry a duplicate value,
\* applicationResourceCustomizeDiff makes no remote call and fails with the
\* validation error.
C18_ValidationBeforeRemote ==
    \A p \in Procs :
        (op[p] = "applicationResourceCustomizeDiff" /\ d[p].duplicate_values)
            => /\ calls[p] = << >>
               /\ pc[p] = "done" => ret[p] = "validation_error"

DisableFns == {"roles_Get", "roles_Update", "scopes_Get", "scopes_Update"}

\* C19: in applicationResourceUpdate the update call and the owners write are
\* issued only after the disabling of app roles and then of permission scopes
\* have both run without error; a failing disable call is the last call, and
\* Update returns an error.
C19_DisableBeforeUpdate ==
    \A p \in Procs :
        op[p] = "applicationResourceUpdate" =>
            \A i \in 1..Len(calls[p]) :
                /\ calls[p][i].fn \in {"Update", "SetOwners"}
                      => /\ \E j, k \in 1..(i - 1) :
                               /\ j < k
                               /\ calls[p][j].fn = "roles_Get"
                               /\ calls[p][k].fn = "scopes_Get"
                               /\ \A m \in 1..(i - 1) :
                                     /\ calls[p][m].fn \in {"roles_Get", "roles_Update"} => m < k
                                     /\ calls[p][m].fn \in {"scopes_Get", "scopes_Update"} => k <= m
                         /\ \A m \in 1..(i - 1) : ~calls[p][m].err
                /\ (calls[p][i].fn \in DisableFns /\ calls[p][i].err)
                      => /\ i = Len(calls[p])
                         /\ pc[p] = "done" /\ ret[p] = "remote_error"

\* Update has returned an error after the call disabling permission scopes
\* failed, the app roles having been disabled before.
C19_Witness ==
    \E p \in Procs :
        /\ op[p] = "applicationResourceUpdate" /\ pc[p] = "done"
        /\ Len(calls[p]) = 4
        /\ calls[p][2].fn = "roles_Update" /\ ~calls[p][2].err
        /\ calls[p][4].fn = "scopes_Update" /\ calls[p][4].err
        /\ ret[p] = "remote_error"

\* C20: the identity applicationPasswordResourceCreate stores decodes, with
\* parse.PasswordID, to the object ID of the application and the key ID of the
\* new credential; every valid (object ID, "password", key ID) triple survives
\* encoding then decoding; and every stored identity that decodes is the
\* encoding of what it decodes to.
C20_CodecRoundTrip ==
    /\ \A o \in ObjectIds, k \in KeyIds :
          PasswordID(CredentialIDString(NewCredentialID(Str(o), "password", Str(k))))
              = Some(NewCredentialID(Str(o), "password", Str(k)))
    /\ \A p \in Procs :
          /\ (op[p] = "applicationPasswordResourceCreate" /\ pc[p] = "read")
                => PasswordID(d[p].id)
                       = Some(NewCredentialID(local[p].appId[1], "password",
                                              calls[p][Len(calls[p])].ID[1]))
          /\ (op[p] \in {"applicationPasswordResourceRead", "applicationPasswordResourceDelete"}
              /\ PasswordID(d[p].id) # None)
                => CredentialIDString(PasswordID(d[p].id)[1]) = d[p].id

\* Create has stored the identity of the credential AddPassword returned and is
\* about to read it back.
C20_Witness ==
    \E p \in Procs :
        /\ op[p] = "applicationPasswordResourceCreate" /\ pc[p] = "read"
        /\ d[p].id = <<"o2", Sep, "password", Sep, "k1">>
        /\ calls[p][Len(calls[p])].fn = "AddPassword"

\* ------------------------------------------------------------------- C21
\* The number of separators in an identity.
SeparatorCount(s) == Cardinality({i \in 1..Len(s) : s[i] = Sep})

\* An identity that cannot be a password identity: not exactly two separators.
WrongSeparators(s) == SeparatorCount(s) # 2

\* The slot has returned a parse error, having made no remote call, taken no
\* lock and changed nothing in the directory.
RejectedAtParse(p) ==
    /\ pc'[p] = "done" /\ ret'[p] = "parse_error"
    /\ calls'[p] = << >> /\ deferred'[p] = << >>
    /\ mutexKV' = mutexKV /\ remote' = remote

\* C21: when the stored identity has the wrong number of separators,
\* applicationPasswordResourceRead and applicationPasswordResourceDelete return
\* a parse error without taking the name lock, without any remote call and
\* without changing the identity.
C21_MalformedIdentityRejected ==
    [][\A p \in Procs :
          /\ (op[p] = "idle" /\ op'[p] = "applicationPasswordResourceDelete"
              /\ WrongSeparators(d'[p].id))
                => RejectedAtParse(p)
          /\ (op[p] = "applicationPasswordResourceDelete" /\ WrongSeparators(d[p].id))
                => (op'[p] = "idle" \/ d'[p].id = d[p].id)
          /\ (op[p] = "applicationPasswordResourceRead" /\ pc[p] = "read"
              /\ WrongSeparators(d[p].id))
                => (RejectedAtParse(p) /\ d'[p].id = d[p].id)]_vars

\* Read has rejected a four-segment identity, which is still stored.
C21_Witness ==
    \E p \in Procs :
        /\ op[p] = "applicationPasswordResourceRead" /\ pc[p] = "done"
        /\ ret[p] = "parse_error" /\ calls[p] = << >>
        /\ d[p].id = <<"o1", Sep, "password", Sep, "k1", Sep, "k1">>

\* ------------------------------------------------------------------- C22
\* C22: resourceApplicationPasswordInstanceStateUpgradeV0 either rewrites only
\* the "id" entry, to {objectId}/password/{keyId}, or returns an error with the
\* raw state unchanged; applied to its own output it leaves the state as it is.
C22_UpgraderNeverCorrupts ==
    [][\A p \in Procs :
          (op[p] = "resourceApplicationPasswordInstanceStateUpgradeV0" /\ pc[p] = "upgrade")
             => /\ pc'[p] = "done"
                /\ \/ /\ ret'[p] = "ok"
                      /\ \E o \in ObjectIds, k \in KeyIds :
                            /\ d[p].id = <<o, Sep, k>>
                            /\ d'[p] = [d[p] EXCEPT !.id = <<o, Sep, "password", Sep, k>>]
                   \/ /\ ret'[p] = "upgrade_error"
                      /\ d'[p] = d[p]
                /\ StateUpgradeV0(d'[p]).state = d'[p]]_vars

\* The upgrader has rewritten a v0 identity, the other entries present.
C22_Witness ==
    \E p \in Procs :
        /\ op[p] = "resourceApplicationPasswordInstanceStateUpgradeV0" /\ pc[p] = "done"
        /\ ret[p] = "ok"
        /\ d[p].id = <<"o1", Sep, "password", Sep, "k2">>
        /\ d[p].key_id = Str("k2") /\ d[p].value = Str("secret")

\* ------------------------------------------------------------------- C23
\* The client method behind a logged call: the disabling updates of
\* applicationDisableAppRoles and applicationDisableOauth2PermissionScopes are
\* calls of Update, and their reads are calls of Get.
Primitive(fn) ==
    IF fn \in {"roles_Update", "scopes_Update"} THEN "Update"
    ELSE IF fn \in {"roles_Get", "scopes_Get"} THEN "Get"
    ELSE fn

MutatingPrimitives == {"Create", "Update", "Delete", "AddPassword", "RemovePassword"}

\* How many times the invocation on p has called the client method m.
TimesCalled(p, m) ==
    Cardinality({i \in 1..Len(calls[p]) : Primitive(calls[p][i].fn) = m})

\* A remote call that failed, other than a Get answered 404.
Failed(c) == c.err /\ ~(Primitive(c.fn) = "Get" /\ c.status = StatusNotFound)

\* A failed call is the last call of its invocation, which has returned an error.
FailureEndsInvocation(p) ==
    \A i \in 1..Len(calls[p]) :
        Failed(calls[p][i])
            => /\ i = Len(calls[p])
               /\ pc[p] = "done" /\ ret[p] \notin {"ok", "none"}

\* C23 as stated: within one invocation every mutating client method is called
\* at most once, and a failed call (other than a Get answered 404) ends the
\* invocation with an error.
C23_AtMostOnceAsStated ==
    \A p \in Procs :
        /\ \A m \in MutatingPrimitives : TimesCalled(p, m) <= 1
        /\ FailureEndsInvocation(p)

\* C23: within one invocation the handler itself calls every mutating client
\* method at most once, applicationResourceUpdate's helpers add at most one
\* disabling Update for the app roles and one for the permission scopes, and a
\* failed call (other than a Get answered 404) ends the invocation with an error.
C23_NoRetryNoSwallow ==
    \A p \in Procs :
        /\ \A fn \in MutatingPrimitives \cup {"roles_Update", "scopes_Update"} :
              Cardinality({i \in 1..Len(calls[p]) : calls[p][i].fn = fn}) <= 1
        /\ op[p] # "applicationResourceUpdate" =>
              \A m \in MutatingPrimitives : TimesCalled(p, m) <= 1
        /\ FailureEndsInvocation(p)

\* applicationResourceUpdate has sent a disabling update and then its own
\* update, which failed and ended the invocation.
C23_Witness ==
    \E p \in Procs :
        /\ op[p] = "applicationResourceUpdate" /\ pc[p] = "done" /\ ret[p] = "remote_error"
        /\ TimesCalled(p, "Update") = 2
        /\ calls[p][Len(calls[p])].fn = "Update" /\ calls[p][Len(calls[p])].err

\* ------------------------------------------------------------------- C24
\* The slot takes the lookup step of userDataSourceRead.
DataSourceLookup(p) == op[p] = "userDataSourceRead" /\ pc[p] = "lookup"

\* The one call the lookup step has logged, if any.
LookupCalls(p) == calls'[p]

\* C24: in userDataSourceRead a list lookup with more than one match is an
\* error and one with no match is a not-found error; the identity is set only
\* when exactly one user, with a non-nil ID, was found; and on every error path
\* the identity is left unset.
C24_ExactlyOneMatch ==
    [][\A p \in Procs :
          DataSourceLookup(p) =>
             /\ pc'[p] = "done"
             /\ \A i \in 1..Len(LookupCalls(p)) :
                   LET c == LookupCalls(p)[i] IN
                   (c.fn = "List" /\ ~c.err /\ c.result # None) =>
                       /\ Len(c.result[1]) > 1 => ret'[p] = "more_than_one"
                       /\ Len(c.result[1]) = 0 => ret'[p] = "not_found"
             /\ d'[p].id # EmptyString =>
                   /\ ret'[p] = "ok"
                   /\ Len(LookupCalls(p)) = 1
                   /\ LET c == LookupCalls(p)[1] IN
                         /\ ~c.err
                         /\ c.fn = "List" =>
                               /\ c.result # None /\ Len(c.result[1]) = 1
                               /\ c.result[1][1].ID = Some(d'[p].id)
                         /\ c.fn = "Get" => c.ID = Some(d'[p].id)
             /\ ret'[p] # "ok" => d'[p].id = EmptyString]_vars

\* A lookup by mail nickname has found two users and failed, no identity set.
C24_Witness ==
    \E p \in Procs :
        /\ op[p] = "userDataSourceRead" /\ pc[p] = "done" /\ ret[p] = "more_than_one"
        /\ Len(calls[p]) = 1 /\ calls[p][1].fn = "List"
        /\ calls[p][1].filter = EqFilter("mailNickname", Str("nick1"))
        /\ Len(calls[p][1].result[1]) = 2
        /\ d[p].id = EmptyString

\* ------------------------------------------------------------------- C30
\* C30: userDataSourceRead performs exactly one remote lookup, chosen in the
\* order user_principal_name, object_id, mail_nickname; with all three empty
\* it returns an error without any remote call.
C30_LookupPrecedence ==
    [][\A p \in Procs :
          DataSourceLookup(p) =>
             LET upn == d[p].user_principal_name
                 objectId == d[p].object_id
                 mailNickname == d[p].mail_nickname
                 made == calls'[p]
             IN  /\ calls[p] = << >>
                 /\ pc'[p] = "done"
                 /\ IF upn # EmptyString THEN
                       /\ Len(made) = 1 /\ made[1].fn = "List"
                       /\ made[1].filter = <<"userPrincipalName eq '">> \o upn \o <<"'">>
                    ELSE IF objectId # EmptyString THEN
                       /\ Len(made) = 1 /\ made[1].fn = "Get"
                       /\ made[1].filter = objectId
                    ELSE IF mailNickname # EmptyString THEN
                       /\ Len(made) = 1 /\ made[1].fn = "List"
                       /\ made[1].filter = <<"mailNickname eq '">> \o mailNickname \o <<"'">>
                    ELSE
                       /\ made = << >>
                       /\ ret'[p] = "missing_argument"
                       /\ d'[p].id = EmptyString]_vars

\* With a user principal name and the object ID of an existing user configured,
\* the one lookup made was the list by user principal name, which found nobody.
C30_Witness ==
    \E p \in Procs :
        /\ op[p] = "userDataSourceRead" /\ pc[p] = "done" /\ ret[p] = "not_found"
        /\ d[p].user_principal_name = Str("upn2") /\ d[p].object_id = Str("u1")
        /\ "u1" \in users
        /\ Len(calls[p]) = 1 /\ calls[p][1].fn = "List"
        /\ calls[p][1].filter = EqFilter("userPrincipalName", Str("upn2"))

\* ------------------------------------------------------------------- C25
\* The invocation on p holds no name lock.
HoldsNoLock(p) == deferred[p] = << >> /\ \A k \in LockKeys : mutexKV[k] # p

\* A Create with the guard on has searched the name and found no application.
SearchedNoMatch(p) ==
    /\ op[p] = "applicationResourceCreate" /\ d[p].prevent_duplicate_names
    /\ Searched(p) /\ Listed(p) = << >>

\* C25: the duplicate-name guard of applicationResourceCreate is a search
\* followed by a create with no lock held across the two: a Create about to
\* call the create primitive has only an earlier search without match to go
\* by, so two concurrent Creates with the same display name can both find no
\* match and both create, leaving two applications with that name.
C25_GuardWindowUnlocked ==
    \A p \in Procs :
        (op[p] = "applicationResourceCreate" /\ d[p].prevent_duplicate_names) =>
            /\ pc[p] \in {"find", "create"} => HoldsNoLock(p)
            /\ pc[p] = "create" => (SearchedNoMatch(p) /\ Len(calls[p]) = 1)
            /\ (Len(calls[p]) >= 2 /\ calls[p][2].fn = "Create") => SearchedNoMatch(p)

\* Both Creates searched the name without match, both created: the directory
\* holds two applications with the same display name.
C25_Witness ==
    /\ \A p \in Procs :
          /\ SearchedNoMatch(p) /\ d[p].display_name = Str("n1")
          /\ Len(calls[p]) >= 2 /\ calls[p][2].fn = "Create" /\ ~calls[p][2].err
          /\ calls[p][2].made # None
    /\ calls["p1"][2].made # calls["p2"][2].made
    /\ apps = {"o1", "o2"} /\ appName["o1"] = "n1" /\ appName["o2"] = "n1"

\* ------------------------------------------------------------------- C26
\* The step of p logs a call of fn.
Calls(p, fn) ==
    /\ Len(calls'[p]) = Len(calls[p]) + 1
    /\ calls'[p][Len(calls'[p])].fn = fn

\* p holds the name lock of the application its configuration names.
HoldsOwnLock(p) ==
    mutexKV[LockKey(applicationResourceName, d[p].application_object_id)] = p

\* C26: applicationPasswordResourceCreate calls AddPassword only after a Get,
\* issued while it held the name lock, returned without error an application
\* with a non-nil ID; when the Get fails, with 404 or otherwise, Create returns
\* an error, never calls AddPassword and leaves the identity empty; and when
\* generating the credential fails it returns before taking the lock and
\* before any remote call.
C26_AddPasswordAfterLockedGet ==
    [][\A p \in Procs :
          /\ (op[p] = "applicationPasswordResourceCreate" /\ Calls(p, "Get") /\ pc[p] = "get")
                => /\ HoldsOwnLock(p) /\ calls[p] = << >>
                   /\ calls'[p][1].err =>
                         /\ pc'[p] = "done" /\ ret'[p] \in {"not_found", "remote_error"}
                         /\ ret'[p] = "not_found" <=> calls'[p][1].status = StatusNotFound
                         /\ d'[p].id = EmptyString
          /\ (op[p] = "applicationPasswordResourceCreate" /\ Calls(p, "AddPassword"))
                => /\ HoldsOwnLock(p)
                   /\ Len(calls[p]) = 1 /\ calls[p][1].fn = "Get"
                   /\ ~calls[p][1].err /\ calls[p][1].ID # None
          /\ (op[p] = "applicationPasswordResourceCreate" /\ calls[p] # << >> /\ calls[p][1].err)
                => (calls'[p] = calls[p] \/ calls'[p] = << >>) /\ d[p].id = EmptyString
          /\ (op[p] = "idle" /\ op'[p] = "applicationPasswordResourceCreate" /\ pc'[p] = "done")
                => /\ ret'[p] \in {"credential_error", "nil_credential"}
                   /\ calls'[p] = << >> /\ mutexKV' = mutexKV /\ deferred'[p] = << >>
                   /\ d'[p].id = EmptyString
          /\ (op[p] = "applicationPasswordResourceCreate"
              /\ ret[p] \in {"credential_error", "nil_credential"})
                => (calls'[p] = << >> /\ \A k \in LockKeys : mutexKV'[k] # p)]_vars

\* Create has returned the not-found error after its Get reported 404: no
\* AddPassword, no identity, the lock released.
C26_Witness ==
    \E p \in Procs :
        /\ op[p] = "applicationPasswordResourceCreate" /\ pc[p] = "done"
        /\ ret[p] = "not_found"
        /\ Len(calls[p]) = 1 /\ calls[p][1].fn = "Get" /\ calls[p][1].status = StatusNotFound
        /\ d[p].id = EmptyString /\ HoldsNoLock(p)

\* ------------------------------------------------------------------- C27
\* The Get that the read step of p logs found the application.
ReadFoundApplication(p) ==
    /\ op[p] \in {"applicationPasswordResourceCreate", "applicationPasswordResourceRead"}
    /\ pc[p] = "read" /\ Calls(p, "Get")
    /\ ~calls'[p][Len(calls'[p])].err

\* The password credentials that Get returned hold the key ID keyId.
ListedKey(p, keyId) ==
    LET list == calls'[p][Len(calls'[p])].result IN
    list # None /\ \E k \in list[1] : Str(k) = keyId

\* C27: when applicationPasswordResourceRead finds the application and none
\* of the password credentials returned (a nil list included) has the key ID
\* decoded from the identity, it clears the identity and returns no error;
\* when one has it, the identity is unchanged and key_id and
\* application_object_id are set from the decoded identity.
C27_ReadKeyGoneIsAbsent ==
    [][\A p \in Procs :
          ReadFoundApplication(p) =>
             LET id == PasswordID(d[p].id)[1] IN
             /\ pc'[p] = "done" /\ ret'[p] = "ok"
             /\ IF ListedKey(p, id.KeyId)
                THEN /\ d'[p].id = d[p].id
                     /\ d'[p].key_id = id.KeyId
                     /\ d'[p].application_object_id = id.ObjectId
                ELSE d'[p].id = EmptyString]_vars

\* Read found the application o1 with a nil credential list while the
\* directory holds the credential: the identity is cleared without error.
C27_Witness ==
    \E p \in Procs :
        /\ op[p] = "applicationPasswordResourceRead" /\ pc[p] = "done" /\ ret[p] = "ok"
        /\ Len(calls[p]) = 1 /\ calls[p][1].fn = "Get" /\ ~calls[p][1].err
        /\ calls[p][1].ID = Some(Str("o1")) /\ calls[p][1].result = None
        /\ "k1" \in creds["o1"]
        /\ d[p].id = EmptyString

\* ------------------------------------------------------------------- C28
\* A *bool that is known to be false.
KnownFalse(flag) == flag = Some(FALSE)

\* The drop rule of the claim, for the filters data and the listed domain v.
DroppedByFilters(data, v) ==
    \/ data.admin_managed /\ KnownFalse(v.IsAdminManaged)
    \/ data.only_default /\ KnownFalse(v.IsDefault)
    \/ data.only_initial /\ KnownFalse(v.IsInitial)
    \/ data.only_root /\ KnownFalse(v.IsRoot)
    \/ ~data.include_unverified /\ KnownFalse(v.IsVerified)
    \/ /\ data.supports_services # << >>
       /\ v.SupportedServices # None
       /\ \E i \in 1..Len(data.supports_services) :
             \A j \in 1..Len(v.SupportedServices[1]) :
                 v.SupportedServices[1][j] # data.supports_services[i]

\* The domains client.List returned to p (none when the result is nil).
ListedDomains(p) ==
    IF calls[p][1].result = None THEN << >> ELSE calls[p][1].result[1]

\* The positions of the listed domains that have an ID and pass every filter.
KeptPositions(p) ==
    {i \in 1..Len(ListedDomains(p)) :
        /\ ListedDomains(p)[i].ID # None
        /\ ~DroppedByFilters(d[p], ListedDomains(p)[i])}

\* C28: domainsDataSourceRead returns exactly the listed domains that have a
\* non-nil ID and pass every filter, in the order of the list, a nil flag
\* never excluding a domain; when none is left it returns an error and sets
\* no identity.
C28_DomainsFiltered ==
    \A p \in Procs :
        (op[p] = "domainsDataSourceRead" /\ pc[p] = "done" /\ ~calls[p][1].err) =>
            LET kept == KeptPositions(p)
                out == d[p].domains
            IN  /\ Len(out) = Cardinality(kept)
                /\ \E f \in [1..Len(out) -> kept] :
                      /\ \A i, j \in 1..Len(out) : i < j => f[i] < f[j]
                      /\ \A i \in 1..Len(out) :
                            LET v == ListedDomains(p)[f[i]] IN
                            /\ out[i].domain_name = v.ID
                            /\ out[i].admin_managed = v.IsAdminManaged
                            /\ out[i].default = v.IsDefault
                            /\ out[i].initial = v.IsInitial
                            /\ out[i].root = v.IsRoot
                            /\ out[i].verified = v.IsVerified
                            /\ out[i].supported_services = v.SupportedServices
                /\ IF kept = {}
                   THEN ret[p] = "no_domains" /\ d[p].id = EmptyString
                   ELSE ret[p] = "ok" /\ d[p].id # EmptyString

\* With only_default on and unverified domains excluded, of the listed d2
\* (flags unknown) and d1 (not the default) exactly d2 was returned.
C28_Witness ==
    \E p \in Procs :
        /\ op[p] = "domainsDataSourceRead" /\ pc[p] = "done" /\ ret[p] = "ok"
        /\ d[p].only_default /\ ~d[p].include_unverified
        /\ Len(ListedDomains(p)) = 2
        /\ ListedDomains(p)[1].ID = Some(Str("d2")) /\ ListedDomains(p)[1].IsVerified = None
        /\ ListedDomains(p)[2].ID = Some(Str("d1")) /\ KnownFalse(ListedDomains(p)[2].IsDefault)
        /\ Len(d[p].domains) = 1 /\ d[p].domains[1].domain_name = Some(Str("d2"))

\* ------------------------------------------------------------------- C29
\* The payloads of the updates userResourceUpdate has sent on p.
UserUpdatePayloads(p) ==
    {calls[p][i].payload : i \in {j \in 1..Len(calls[p]) : calls[p][j].fn = "Update"}}

\* C29: the record userResourceUpdate sends holds a password profile exactly
\* when the password is marked as changed, the on-premises immutable ID exactly
\* when that attribute is marked as changed, and never the user principal name.
C29_PasswordOnlyWhenChanged ==
    \A p \in Procs :
        op[p] = "userResourceUpdate" =>
            /\ pc[p] # "update" => UserUpdatePayloads(p) # {}
            /\ \A payload \in UserUpdatePayloads(p) :
                  /\ "password" \in payload <=> "password" \in d[p].changed
                  /\ "onpremises_immutable_id" \in payload
                         <=> "onpremises_immutable_id" \in d[p].changed
                  /\ "user_principal_name" \notin payload

\* An update sent while the display name and the on-premises immutable ID were
\* marked as changed and the password was not.
C29_Witness ==
    \E p \in Procs :
        /\ op[p] = "userResourceUpdate"
        /\ d[p].changed = {"display_name", "onpremises_immutable_id"}
        /\ \E payload \in UserUpdatePayloads(p) :
              /\ "onpremises_immutable_id" \in payload
              /\ "password" \notin payload /\ "user_principal_name" \notin payload

====
